---- MODULE Spec2Model ----
(***************************************************************************)
(* Planning analyzer: the hierarchy detector and the normaliser of          *)
(* planning_parser.py, the validation rules of validators.py, the metrics  *)
(* of analytics.py, the exports of exporters.py and the script of app.py,  *)
(* as state machines over small tables.                                    *)
(*                                                                         *)
(* A cell is either missing (None / NaN / NaT) or holds a value: Null is   *)
(* the missing cell and Some(v) a cell holding v.  A text is the sequence  *)
(* of its characters, a table (DataFrame) is the sequence of its rows and   *)
(* the index label of the i-th row is i - 1.  A date is a day number, day   *)
(* 1 being 2024-01-01; the cell of a Timestamp off midnight holds its day   *)
(* and its nanoseconds from the midnight of that day.                       *)
(***************************************************************************)
EXTENDS Integers, Sequences, FiniteSets, TLC

VARIABLES
    rows,           \* the df argument of _detect_structure
    res,            \* df_result of _detect_structure
    current_bloc,   \* running state of the forward pass
    current_phase,  \* running state of the forward pass
    idx,            \* position of the for loop (1-based)
    nwrites,        \* per row, the number of writes of 'level' made by the loop
    res2,           \* outcome of _detect_structure run on its own output
    df,             \* the table given to the validator
    today,          \* what the last reading of datetime.now().date() gave
    sort_order,     \* the order the last sorts of sort_values gave
    result,         \* outcome of the last validator call
    summary,        \* the dict returned by get_summary
    kpis,           \* outcome of the last calculate_kpis call
    ev_metrics,     \* outcome of the last calculate_earned_value call
    frames,         \* the DataFrame objects after the last call, df among them
    df_structured,  \* the df argument of _clean_data
    df_clean,       \* outcome of _clean_data
    session,        \* st.session_state
    view,           \* what the last run of app.py put on the page
    demo_mode,      \* the sidebar checkbox
    uploaded_file,  \* the sidebar file uploader
    pc              \* where the program is

detVars == <<rows, res, current_bloc, current_phase, idx, nwrites, res2>>
valVars == <<df, today, sort_order, result, summary>>
anaVars == <<kpis, ev_metrics, frames>>
cleanVars == <<df_structured, df_clean>>
appVars == <<session, view, demo_mode, uploaded_file>>
vars == <<rows, res, current_bloc, current_phase, idx, nwrites, res2,
          df, today, sort_order, result, summary,
          kpis, ev_metrics, frames, df_structured, df_clean,
          session, view, demo_mode, uploaded_file, pc>>

-----------------------------------------------------------------------------
(* Cells *)

Null == <<>>
Some(v) == <<v>>
IsNa(c) == c = Null
Val(c) == c[1]

\* the cell of the Timestamp ns nanoseconds after the midnight of day (before
\* it when ns < 0), for less than a day of nanoseconds
Timestamp(day, ns) == IF ns = 0 THEN <<day>> ELSE <<day, ns>>
Nanoseconds(c) == IF Len(c) > 1 THEN c[2] ELSE 0

\* a < b for the Timestamps of two cells
Earlier(a, b) ==
    \/ Val(a) < Val(b)
    \/ Val(a) = Val(b) /\ Nanoseconds(a) < Nanoseconds(b)

\* (b - a).days for the Timestamps of two cells: Timedelta.days rounds down
DaysFrom(a, b) ==
    Val(b) - Val(a) - (IF Nanoseconds(b) < Nanoseconds(a) THEN 1 ELSE 0)

-----------------------------------------------------------------------------
(* Python str methods used by the detector, on sequences of characters *)

UpperChars == {"A", "B", "C", "D", "E"}
LowerChars == {"a", "b", "c", "d", "e"}
DigitChars == {"0", "1", "2", "3", "4", "5", "6", "7", "8", "9"}
SpaceChars == {" "}

RECURSIVE LStrip(_)
LStrip(s) ==
    IF s # <<>> /\ Head(s) \in SpaceChars THEN LStrip(Tail(s)) ELSE s

RECURSIVE RStrip(_)
RStrip(s) ==
    IF s # <<>> /\ s[Len(s)] \in SpaceChars
    THEN RStrip(SubSeq(s, 1, Len(s) - 1))
    ELSE s

\* str.strip()
Strip(s) == RStrip(LStrip(s))

\* str.isupper(): at least one cased character and no lower-case one
IsUpper(s) ==
    /\ \E i \in 1..Len(s) : s[i] \in UpperChars
    /\ \A i \in 1..Len(s) : s[i] \notin LowerChars

\* c.isdigit() for one character
IsDigit(c) == c \in DigitChars

\* str.startswith('-')
StartsWithDash(s) == s # <<>> /\ s[1] = "-"

-----------------------------------------------------------------------------
(* _detect_structure *)

BLOC == Some("bloc")
PHASE == Some("phase")
TACHE == Some("tache")
Levels == {BLOC, PHASE, TACHE}

\* lines 72-77: the copy with the three columns initialised
InitColumns(d) ==
    [i \in 1..Len(d) |->
        [d[i] EXCEPT !.level = TACHE, !.bloc = Null, !.phase = Null]]

\* the bug of reading one row ahead
RowAtNext(d, i) == d[IF i < Len(d) THEN i + 1 ELSE i]

\* the row the for loop yields at position i
RowAt(d, i) == d[i]

\* task_str of line 85
TaskStr(row) == Strip(Val(row.task))

\* lines 84-102: the branch a row takes.  task_str[0] of line 95 is evaluated
\* whenever the test of line 88 fails, and raises IndexError on an empty string.
Branch(row) ==
    IF IsNa(row.task) THEN "skip"
    ELSE IF IsUpper(TaskStr(row)) /\ IsNa(row.start) THEN "bloc"
    ELSE IF TaskStr(row) = <<>> THEN "raise"
    ELSE IF (IsDigit(TaskStr(row)[1]) \/ StartsWithDash(TaskStr(row)))
            /\ IsNa(row.start) THEN "phase"
    ELSE "tache"

\* the bug of leaving out line 90
WritesBlocNoLabel(row) == << <<"level", BLOC>> >>

WritesBloc(row) == << <<"level", BLOC>>, <<"bloc", Some(TaskStr(row))>> >>
WritesPhase(row, cb) ==
    << <<"level", PHASE>>, <<"phase", Some(TaskStr(row))>>, <<"bloc", cb>> >>
WritesTache(cb, cp) ==
    << <<"level", TACHE>>, <<"bloc", cb>>, <<"phase", cp>> >>

\* the bug of naming column 'task' for 'bloc' in line 104
WritesTaskTypo(row, cb, cp) ==
    CASE Branch(row) = "bloc"  -> WritesBloc(row)
      [] Branch(row) = "phase" -> WritesPhase(row, cb)
      [] Branch(row) = "tache" ->
            << <<"level", TACHE>>, <<"task", cb>>, <<"phase", cp>> >>
      [] OTHER -> <<>>

\* the bug of writing `if` for the `elif` of line 95
WritesNoElif(row, cb, cp) ==
    IF Branch(row) \in {"skip", "raise"} THEN <<>>
    ELSE (IF Branch(row) = "bloc" THEN WritesBloc(row) ELSE <<>>)
         \o (IF (IsDigit(TaskStr(row)[1]) \/ StartsWithDash(TaskStr(row)))
                /\ IsNa(row.start)
             THEN WritesPhase(row, cb)
             ELSE WritesTache(cb, cp))

\* lines 89-90, 96-98, 103-105: the df_result.at[idx, col] = val of the branch
Writes(row, cb, cp) ==
    CASE Branch(row) = "bloc"  -> WritesBloc(row)
      [] Branch(row) = "phase" -> WritesPhase(row, cb)
      [] Branch(row) = "tache" -> WritesTache(cb, cp)
      [] OTHER -> <<>>

RECURSIVE ApplyWrites(_, _)
ApplyWrites(r, ws) ==
    IF ws = <<>> THEN r
    ELSE ApplyWrites([r EXCEPT ![ws[1][1]] = ws[1][2]], Tail(ws))

LevelWrites(ws) == Cardinality({k \in 1..Len(ws) : ws[k][1] = "level"})

\* the bug of leaving out line 92
NextPhaseNoReset(row, cp) ==
    IF Branch(row) = "phase" THEN Some(TaskStr(row)) ELSE cp

\* line 91
NextBloc(row, cb) == IF Branch(row) = "bloc" THEN Some(TaskStr(row)) ELSE cb

\* lines 92, 99
NextPhase(row, cp) ==
    CASE Branch(row) = "bloc"  -> Null
      [] Branch(row) = "phase" -> Some(TaskStr(row))
      [] OTHER -> cp

\* lines 82-105 as a fold; raised is the IndexError of line 95
RECURSIVE DetectLoop(_, _, _, _)
DetectLoop(d, i, cb, cp) ==
    IF i > Len(d) THEN [raised |-> FALSE, df |-> d]
    ELSE IF Branch(RowAt(d, i)) = "raise" THEN [raised |-> TRUE, df |-> d]
    ELSE DetectLoop(
            [d EXCEPT ![i] = ApplyWrites(d[i], Writes(RowAt(d, i), cb, cp))],
            i + 1,
            NextBloc(RowAt(d, i), cb),
            NextPhase(RowAt(d, i), cp))

\* lines 70-107
DetectStructure(d) == DetectLoop(InitColumns(d), 1, Null, Null)

-----------------------------------------------------------------------------
(* validators.py: tables, alerts and the eight rules *)

\* A table is [absent, rows]: the optional columns it lacks, and its rows.
\* A cell of a lacking column reads as missing (row.get gives None).
OptionalCols == {"start_date", "end_date", "duration", "progress", "value"}

Row(level, bloc, phase, name, start, end, duration, progress, value) ==
    [level |-> level, bloc |-> bloc, phase |-> phase, task_name |-> name,
     start_date |-> start, end_date |-> end, duration |-> duration,
     progress |-> progress, value |-> value]

\* one alert dict; message is the text of the f-string and what it interpolates
Alert(severity, text, row, names, nums) ==
    [severity |-> severity,
     message |-> [text |-> text, names |-> names, nums |-> nums],
     row |-> row]

Returned(alerts) == [raised |-> FALSE, alerts |-> alerts]
KeyError == [raised |-> TRUE, alerts |-> <<>>]

RECURSIVE Flatten(_)
Flatten(ss) == IF ss = <<>> THEN <<>> ELSE Head(ss) \o Flatten(Tail(ss))

\* the elements of seq that are in S, in the order of seq
Filter(seq, S) ==
    CHOOSE kept \in {SelectSeq(seq, LAMBDA x : x \in T) : T \in {S}} : TRUE

\* the bug of leaving out the filter on the level
TasksOfAnyLevel(d) == [i \in 1..Len(d.rows) |-> i]

\* df[df['level'] == 'tache']: the positions of the Task rows, in table order
Tasks(d) == Filter([i \in 1..Len(d.rows) |-> i],
                   {i \in 1..Len(d.rows) : d.rows[i].level = TACHE})

\* .dropna(subset=cols) raises KeyError when a column of cols is lacking
LacksAny(d, cols) == cols \cap d.absent # {}

\* .dropna(subset=cols) on the positions ps
DropNa(d, ps, cols) ==
    Filter(ps, {i \in 1..Len(d.rows) : \A c \in cols : ~IsNa(d.rows[i][c])})

\* the index label of the row at position i
IndexOf(i) == i - 1

Abs(x) == IF x < 0 THEN -x ELSE x

\* lines 42-63
CheckMissingDates(d) ==
    LET ts == Tasks(d)
        one(i) ==
            (IF IsNa(d.rows[i].start_date)
             THEN <<Alert("error", "Date debut manquante", Some(IndexOf(i)),
                          <<d.rows[i].task_name>>, <<>>)>>
             ELSE <<>>)
            \o
            (IF IsNa(d.rows[i].end_date)
             THEN <<Alert("error", "Date fin manquante", Some(IndexOf(i)),
                          <<d.rows[i].task_name>>, <<>>)>>
             ELSE <<>>)
    IN Returned(Flatten([k \in 1..Len(ts) |-> one(ts[k])]))

DurationFiresAtOne(calc, stated) == Abs(calc - stated) >= 1

\* line 76
DurationFires(calc, stated) == Abs(calc - stated) > 1

\* lines 65-83
CheckDurationCoherence(d) ==
    IF LacksAny(d, {"start_date", "end_date", "duration"}) THEN KeyError
    ELSE
    LET ts == DropNa(d, Tasks(d), {"start_date", "end_date", "duration"})
        calc(i) == DaysFrom(d.rows[i].start_date, d.rows[i].end_date)
        stated(i) == Val(d.rows[i].duration)
        one(i) ==
            IF DurationFires(calc(i), stated(i))
            THEN <<Alert("warning", "Incoherence duree", Some(IndexOf(i)),
                         <<d.rows[i].task_name>>, <<calc(i), stated(i)>>)>>
            ELSE <<>>
    IN Returned(Flatten([k \in 1..Len(ts) |-> one(ts[k])]))

\* the bug of taking 100 for out of range
CheckProgressRangeBelow100(d) ==
    LET ts == DropNa(d, Tasks(d), {"progress"})
        one(i) ==
            IF Val(d.rows[i].progress) < 0 \/ Val(d.rows[i].progress) >= 100
            THEN <<Alert("error", "Avancement invalide", Some(IndexOf(i)),
                         <<d.rows[i].task_name>>, <<Val(d.rows[i].progress)>>)>>
            ELSE <<>>
    IN Returned(Flatten([k \in 1..Len(ts) |-> one(ts[k])]))

\* lines 85-101
CheckProgressRange(d) ==
    IF LacksAny(d, {"progress"}) THEN KeyError
    ELSE
    LET ts == DropNa(d, Tasks(d), {"progress"})
        one(i) ==
            IF Val(d.rows[i].progress) < 0 \/ Val(d.rows[i].progress) > 100
            THEN <<Alert("error", "Avancement invalide", Some(IndexOf(i)),
                         <<d.rows[i].task_name>>, <<Val(d.rows[i].progress)>>)>>
            ELSE <<>>
    IN Returned(Flatten([k \in 1..Len(ts) |-> one(ts[k])]))

\* the bug of letting equal dates pass
CheckDateOrderStrict(d) ==
    LET ts == DropNa(d, Tasks(d), {"start_date", "end_date"})
        one(i) ==
            IF Earlier(d.rows[i].end_date, d.rows[i].start_date)
            THEN <<Alert("error", "Date fin avant date debut", Some(IndexOf(i)),
                         <<d.rows[i].task_name>>, <<>>)>>
            ELSE <<>>
    IN Returned(Flatten([k \in 1..Len(ts) |-> one(ts[k])]))

\* lines 103-117
CheckDateOrder(d) ==
    IF LacksAny(d, {"start_date", "end_date"}) THEN KeyError
    ELSE
    LET ts == DropNa(d, Tasks(d), {"start_date", "end_date"})
        one(i) ==
            IF ~Earlier(d.rows[i].start_date, d.rows[i].end_date)
            THEN <<Alert("error", "Date fin avant date debut", Some(IndexOf(i)),
                         <<d.rows[i].task_name>>, <<>>)>>
            ELSE <<>>
    IN Returned(Flatten([k \in 1..Len(ts) |-> one(ts[k])]))

\* lines 119-140
CheckOrphanTasks(d) ==
    LET ts == Tasks(d)
        one(i) ==
            (IF IsNa(d.rows[i].bloc)
             THEN <<Alert("warning", "Tache sans BLOC", Some(IndexOf(i)),
                          <<d.rows[i].task_name>>, <<>>)>>
             ELSE <<>>)
            \o
            (IF IsNa(d.rows[i].phase)
             THEN <<Alert("info", "Tache sans Phase", Some(IndexOf(i)),
                          <<d.rows[i].task_name>>, <<>>)>>
             ELSE <<>>)
    IN Returned(Flatten([k \in 1..Len(ts) |-> one(ts[k])]))

\* line 146: the rows the overlap rule looks at (when the columns exist)
OverlapTasks(d) == DropNa(d, Tasks(d), {"phase", "start_date", "end_date"})

SeqRange(s) == {s[k] : k \in 1..Len(s)}

\* the sequences that list every row of S once, a row of earlier start before
\* a row of later start
RECURSIVE SortedByStart(_, _)
SortedByStart(d, S) ==
    IF S = {} THEN {<<>>}
    ELSE UNION { {<<i>> \o o : o \in SortedByStart(d, S \ {i})} :
                   i \in {j \in S : \A k \in S :
                             ~Earlier(d.rows[k].start_date, d.rows[j].start_date)} }

\* line 149, sort_values('start_date'): sort_values' default quicksort is not
\* stable, so rows with equal start dates may come out in any order.  An order
\* of all the rule's rows gives each phase's order by restriction.
SortOrders(d) ==
    IF LacksAny(d, {"start_date", "end_date"}) THEN {<<>>}
    ELSE SortedByStart(d, SeqRange(OverlapTasks(d)))

\* line 148, tasks['phase'].unique(): the phases in order of first appearance
RECURSIVE Unique(_, _)
Unique(d, ps) ==
    IF ps = <<>> THEN <<>>
    ELSE LET rest == Unique(d, SubSeq(ps, 1, Len(ps) - 1))
             ph == d.rows[ps[Len(ps)]].phase
         IN IF ph \in SeqRange(rest) THEN rest ELSE Append(rest, ph)

OverlapFiresAtEqual(prev_end, next_start) == ~Earlier(prev_end, next_start)

\* line 155, on the two cells
OverlapFires(prev_end, next_start) == Earlier(next_start, prev_end)

\* lines 142-162; order is the outcome of the sorts
CheckOverlappingTasks(d, order) ==
    IF LacksAny(d, {"start_date", "end_date"}) THEN KeyError
    ELSE
    LET phases == Unique(d, OverlapTasks(d))
        phase_tasks(ph) ==
            Filter(order, {i \in 1..Len(d.rows) : d.rows[i].phase = ph})
        pair(pt, k) ==
            IF OverlapFires(d.rows[pt[k]].end_date, d.rows[pt[k + 1]].start_date)
            THEN <<Alert("info", "Chevauchement", Some(IndexOf(pt[k])),
                         <<d.rows[pt[k]].task_name, d.rows[pt[k + 1]].task_name>>,
                         <<>>)>>
            ELSE <<>>
        ofphase(ph) ==
            Flatten([k \in 1..(Len(phase_tasks(ph)) - 1) |-> pair(phase_tasks(ph), k)])
    IN Returned(Flatten([n \in 1..Len(phases) |-> ofphase(phases[n])]))

\* the bug of counting the rows of every level
CheckMissingValuesAllRows(d) ==
    LET missing_count ==
            Cardinality({i \in 1..Len(d.rows) : IsNa(d.rows[i].value)})
    IN Returned(IF missing_count > 0
                THEN <<Alert("info", "taches sans valeur financiere", Null,
                             <<>>, <<missing_count>>)>>
                ELSE <<>>)

\* lines 164-178
CheckMissingValues(d) ==
    IF LacksAny(d, {"value"}) THEN KeyError
    ELSE
    LET missing_count ==
            Cardinality({i \in SeqRange(Tasks(d)) : IsNa(d.rows[i].value)})
    IN Returned(IF missing_count > 0
                THEN <<Alert("info", "taches sans valeur financiere", Null,
                             <<>>, <<missing_count>>)>>
                ELSE <<>>)

\* lines 180-195; now is the day datetime.now() gives, and line 184 takes its
\* midnight
CheckFutureProgress(d, now) ==
    IF LacksAny(d, {"start_date", "progress"}) THEN KeyError
    ELSE
    LET ts == DropNa(d, Tasks(d), {"start_date", "progress"})
        one(i) ==
            IF Earlier(Some(now), d.rows[i].start_date) /\ Val(d.rows[i].progress) > 0
            THEN <<Alert("warning", "Tache future avec avancement",
                         Some(IndexOf(i)), <<d.rows[i].task_name>>,
                         <<Val(d.rows[i].progress)>>)>>
            ELSE <<>>
    IN Returned(Flatten([k \in 1..Len(ts) |-> one(ts[k])]))

RulesSwapped ==
    << "missing_dates", "duration_coherence", "progress_range", "orphan_tasks",
       "date_order", "overlapping_tasks", "missing_values", "future_progress" >>

\* lines 13-22: self.rules
Rules ==
    << "missing_dates", "duration_coherence", "progress_range", "date_order",
       "orphan_tasks", "overlapping_tasks", "missing_values", "future_progress" >>

\* line 37: rule(df)
ApplyRule(rule, d, order, now) ==
    CASE rule = "missing_dates"      -> CheckMissingDates(d)
      [] rule = "duration_coherence" -> CheckDurationCoherence(d)
      [] rule = "progress_range"     -> CheckProgressRange(d)
      [] rule = "date_order"         -> CheckDateOrder(d)
      [] rule = "orphan_tasks"       -> CheckOrphanTasks(d)
      [] rule = "overlapping_tasks"  -> CheckOverlappingTasks(d, order)
      [] rule = "missing_values"     -> CheckMissingValues(d)
      [] rule = "future_progress"    -> CheckFutureProgress(d, now)

\* lines 36-38: an exception of a rule leaves validate
RECURSIVE RunRules(_, _, _, _, _)
RunRules(rs, alerts, d, order, now) ==
    IF rs = <<>> THEN Returned(alerts)
    ELSE LET rule_alerts == ApplyRule(Head(rs), d, order, now)
         IN IF rule_alerts.raised THEN KeyError
            ELSE RunRules(Tail(rs), alerts \o rule_alerts.alerts, d, order, now)

\* lines 24-40
Validate(d, order, now) == RunRules(Rules, <<>>, d, order, now)

\* lines 36-38: the rules of rs that validate() calls on d, the one that
\* raises being the last; whether a rule raises depends on the columns of d,
\* not on the order of the sorts nor on the day
RECURSIVE RulesCalled(_, _)
RulesCalled(rs, d) ==
    IF rs = <<>> THEN <<>>
    ELSE IF ApplyRule(Head(rs), d, <<>>, 0).raised THEN <<Head(rs)>>
    ELSE <<Head(rs)>> \o RulesCalled(Tail(rs), d)

\* lines 148-149: the overlap rule calls sort_values once for each phase of
\* its rows, so not at all when it raises at line 146 or has no rows
Sorts(d) == ~LacksAny(d, {"start_date", "end_date"}) /\ OverlapTasks(d) # <<>>

\* the days datetime.now() may give
Days == {2, 9}

\* line 184: the last rule is the only one that reads the clock
ReadsClock(d) == "future_progress" \in SeqRange(RulesCalled(Rules, d))

\* the days a call of validate() on d can read; a call that does not come to
\* line 184 leaves the day read before
ValidateDays(d, before) == IF ReadsClock(d) THEN Days ELSE {before}

\* line 149: the orders the sorts of a call of validate() on d can give; a
\* call that does not sort leaves the order given before
ValidateOrders(d, before) ==
    IF "overlapping_tasks" \in SeqRange(RulesCalled(Rules, d)) /\ Sorts(d)
    THEN SortOrders(d)
    ELSE {before}

\* lines 206-208: summary[severity] = summary.get(severity, 0) + 1
RECURSIVE Tally(_, _)
Tally(sm, alerts) ==
    IF alerts = <<>> THEN sm
    ELSE LET severity == Head(alerts).severity
             old == IF severity \in DOMAIN sm THEN sm[severity] ELSE 0
         IN Tally([k \in DOMAIN sm \cup {severity} |->
                      IF k = severity THEN old + 1 ELSE sm[k]],
                  Tail(alerts))

\* lines 197-210
GetSummary(alerts) ==
    Tally([k \in {"error", "warning", "info", "total"} |->
              IF k = "total" THEN Len(alerts) ELSE 0],
          alerts)

-----------------------------------------------------------------------------
(* _clean_data *)

\* The optional columns of a mapped table.  Such a table is [absent, rows] as
\* well; a cell of start, end, progress or value holds [kind, v]: "date", a
\* date cell of day v (a datetime at midnight, without time zone); "num", the
\* whole number v; "pct", the text "v%"; "text", a text that reads neither as
\* a date nor, with or without its '%', as a number.  A cell of duration holds
\* a number.
RawOptionalCols == {"start", "end", "duration", "progress", "value"}

Raw(kind, v) == Some([kind |-> kind, v |-> v])

\* the cells of a column of the table, from the first row to the last
Column(d, col) == [i \in 1..Len(d.rows) |-> d.rows[i][col]]

HoldsKind(column, kind) ==
    \E i \in 1..Len(column) : ~IsNa(column[i]) /\ Val(column[i]).kind = kind

\* read_excel gives a column of date cells and blanks the dtype
\* datetime64[ns]; _map_columns and _detect_structure keep it
IsDatetime64(column) ==
    /\ HoldsKind(column, "date")
    /\ \A kind \in {"num", "pct", "text"} : ~HoldsKind(column, kind)

\* 1970-01-01
EpochDay == -19722

\* What to_datetime makes of a number in a column that holds date cells too:
\* NaT before pandas 2 ("mixed datetimes and integers", coerced), the number
\* of nanoseconds since 1970-01-01 from pandas 2 on.  src/ pins no version.
NumbersAmongDates == {"NaT", "nanoseconds"}

\* line 116: pd.to_datetime(..., errors='coerce') on the cell c of column.  A
\* number alone or among texts is a number of nanoseconds since 1970-01-01.
ToDatetime(c, column, among_dates) ==
    IF IsNa(c) THEN Null
    ELSE IF Val(c).kind = "date" THEN Some(Val(c).v)
    ELSE IF Val(c).kind = "num"
    THEN (IF HoldsKind(column, "date") /\ among_dates = "NaT" THEN Null
          ELSE Timestamp(EpochDay, Val(c).v))
    ELSE Null

\* lines 127-130: astype(str), '%' removed from the text, then
\* pd.to_numeric(..., 'coerce')
ProgressToNumeric(c) ==
    IF IsNa(c) THEN Null
    ELSE IF Val(c).kind \in {"num", "pct"} THEN Some(Val(c).v)
    ELSE Null

\* An int64 beyond the integers of the model: the nanoseconds of days days,
\* days * 86400000000000, and the int64 of NaT, -9223372036854775808
NanosecondsOfDays(days) == [int64 |-> "days * 86400000000000", days |-> days]
Int64OfNaT == [int64 |-> "-9223372036854775808", days |-> 0]

\* line 134: pd.to_numeric(..., errors='coerce') on the cell c of column.
\* to_numeric views a datetime64[ns] column as int64: a date becomes its
\* nanoseconds since 1970-01-01 and a blank the int64 of NaT, which is not a
\* missing value.
ValueToNumeric(c, column) ==
    IF IsDatetime64(column)
    THEN (IF IsNa(c) THEN Some(Int64OfNaT)
          ELSE Some(NanosecondsOfDays(Val(c).v - EpochDay)))
    ELSE IF IsNa(c) THEN Null
    ELSE IF Val(c).kind = "num" THEN Some(Val(c).v)
    ELSE Null

\* lines 137-142
Renamed(cols) ==
    {IF c = "start" THEN "start_date" ELSE IF c = "end" THEN "end_date" ELSE c :
        c \in cols}

\* line 120 raises KeyError when 'start' and 'end' are there and 'duration' is not
CleanRaisesOn(d) ==
    /\ "start" \notin d.absent
    /\ "end" \notin d.absent
    /\ "duration" \in d.absent

\* lines 119-123: the duration of row r after the computation, start and end
\* being the cells lines 114-116 left in the row
CleanDuration(d, r, start, end) ==
    IF "start" \notin d.absent /\ "end" \notin d.absent /\ IsNa(r.duration)
    THEN (IF IsNa(start) \/ IsNa(end) THEN Null ELSE Some(DaysFrom(start, end)))
    ELSE r.duration

\* lines 109-144; among_dates is a member of NumbersAmongDates
CleanData(d, among_dates) ==
    IF CleanRaisesOn(d) THEN [raised |-> TRUE, df |-> [absent |-> {}, rows |-> <<>>]]
    ELSE [raised |-> FALSE,
          df |-> [absent |-> Renamed(d.absent),
                  rows |-> [i \in 1..Len(d.rows) |->
                      Row(d.rows[i].level, d.rows[i].bloc, d.rows[i].phase,
                          d.rows[i].task,
                          ToDatetime(d.rows[i].start, Column(d, "start"), among_dates),
                          ToDatetime(d.rows[i].end, Column(d, "end"), among_dates),
                          CleanDuration(d, d.rows[i],
                              ToDatetime(d.rows[i].start, Column(d, "start"), among_dates),
                              ToDatetime(d.rows[i].end, Column(d, "end"), among_dates)),
                          ProgressToNumeric(d.rows[i].progress),
                          ValueToNumeric(d.rows[i].value, Column(d, "value")))]]]

-----------------------------------------------------------------------------
(* analytics.py *)


\* line 84: return None
NoMetrics == [raised |-> FALSE, none |-> TRUE]

\* the DataFrame objects before any call
NoFrames == [raised |-> FALSE, objects |-> [n \in {} |-> Null]]

RECURSIVE Sum(_)
Sum(seq) == IF seq = <<>> THEN 0 ELSE Head(seq) + Sum(Tail(seq))

\* .min() and .max() of a set of cells holding dates
MinOf(S) == CHOOSE x \in S : \A y \in S : ~Earlier(y, x)
MaxOf(S) == CHOOSE x \in S : \A y \in S : ~Earlier(x, y)

\* float64: a finite number is sign * m * 2^e, m written as its 53 bits, the
\* most significant first and equal to 1; zero has no bits
Precision == 53

Float(sign, m, e) == [sign |-> sign, m |-> m, e |-> e]
FloatZero == Float(1, <<>>, 0)

Zeros(n) == [k \in 1..n |-> 0]

\* n < 2^w written on w bits
FixedBits(n, w) == [k \in 1..w |-> (n \div 2^(w - k)) % 2]

\* the number written by the eight bits of b from place k on
ByteAt(b, k) ==
    128 * b[k] + 64 * b[k + 1] + 32 * b[k + 2] + 16 * b[k + 3]
    + 8 * b[k + 4] + 4 * b[k + 5] + 2 * b[k + 6] + b[k + 7]

\* the number written by at most 30 bits
ValueOf(bits) ==
    CHOOSE n \in
      { ((ByteAt(b, 1) * 256 + ByteAt(b, 9)) * 256 + ByteAt(b, 17)) * 256
        + ByteAt(b, 25)
        : b \in {Zeros(32 - Len(bits)) \o bits} } : TRUE

StripZeros(bits) ==
    CHOOSE stripped \in
      { IF \A k \in 1..Len(b) : b[k] = 0 THEN <<>>
        ELSE SubSeq(b,
                    CHOOSE k \in 1..Len(b) :
                        b[k] = 1 /\ \A j \in 1..k - 1 : b[j] = 0,
                    Len(b))
        : b \in {bits} } : TRUE

\* the bits of n >= 0, without leading zeros
BitsOf(n) == StripZeros(FixedBits(n, 31))

\* bits + 1 on the same number of bits, for bits that are not all 1
Incremented(bits) ==
    LET last == CHOOSE k \in 1..Len(bits) :
                    bits[k] = 0 /\ \A j \in k + 1..Len(bits) : bits[j] = 1
    IN [k \in 1..Len(bits) |->
          IF k < last THEN bits[k] ELSE IF k = last THEN 1 ELSE 0]

\* the float nearest to sign * (bits + s) * 2^e, ties to even, where s is 0,
\* or some number strictly between 0 and 1 when sticky
RoundToFloat(sign, bits, e, sticky) ==
    CHOOSE f \in
      { IF Len(b) = 0 THEN FloatZero
        ELSE IF Len(b) <= Precision
        THEN Float(sign, b \o Zeros(Precision - Len(b)), e - (Precision - Len(b)))
        ELSE LET kept == SubSeq(b, 1, Precision)
                 half == b[Precision + 1] = 1
                 more == sticky \/ \E k \in Precision + 2..Len(b) : b[k] = 1
                 up == half /\ (more \/ kept[Precision] = 1)
                 e_kept == e + (Len(b) - Precision)
             IN IF ~up THEN Float(sign, kept, e_kept)
                ELSE IF \A k \in 1..Precision : kept[k] = 1
                THEN Float(sign, <<1>> \o Zeros(Precision - 1), e_kept + 1)
                ELSE Float(sign, Incremented(kept), e_kept)
        : b \in {StripZeros(bits)} } : TRUE

\* long division by d > 0, w bits at a time (d * 2^w fits an integer): the
\* quotient q and the remainder r so far, then over the bits left
RECURSIVE LongDivision(_, _, _, _, _)
LongDivision(bits, d, w, q, r) ==
    IF bits = <<>> THEN [q |-> q, r |-> r]
    ELSE CHOOSE by \in
      { LongDivision(SubSeq(b, w + 1, Len(b)), d, w,
                     q \o FixedBits(taken \div d, w), taken % d)
        : b \in {bits},
          taken \in {r * 2^w + ValueOf(SubSeq(bits, 1, w))} } : TRUE

\* how many bits of a dividend a step of the division by d can take
StepWidth(d) ==
    CHOOSE w \in {IF len < 30 THEN 30 - len ELSE 1 : len \in {Len(BitsOf(d))}} : TRUE

\* bits with zeros in front, up to a multiple of w bits
Padded(bits, w) == Zeros((w - (Len(bits) % w)) % w) \o bits

\* the quotient and the remainder of the number written by bits (a multiple
\* of w bits) by d, in two runs of LongDivision
Quotient(bits, d, w) ==
    CHOOSE by \in
      { LongDivision(SubSeq(bits, w * ((Len(bits) \div w) \div 2) + 1, Len(bits)),
                     d, w, first.q, first.r)
        : first \in {LongDivision(SubSeq(bits, 1, w * ((Len(bits) \div w) \div 2)),
                                  d, w, <<>>, 0)} } : TRUE

\* the quotient of sign * bits * 2^e by d, the dividend taken with more bits
\* and divided w bits at a time, rounded to a float
Divided(sign, bits, e, d, more, w) ==
    CHOOSE f \in
      { RoundToFloat(sign, by.q, e - more, by.r # 0)
        : by \in {Quotient(Padded(bits \o Zeros(more), w), d, w)} } : TRUE

\* x / d in float64, for an integer d, 0 < d < 2^30: the dividend has as many
\* more bits as d has, and one
FloatDivided(x, d) ==
    IF x.m = <<>> THEN FloatZero
    ELSE CHOOSE f \in
      { Divided(x.sign, x.m, x.e, d, more, w)
        : more \in {Len(BitsOf(d)) + 1}, w \in {StepWidth(d)} } : TRUE

\* the float of an integer of less than 32 bits
FloatOf(n) ==
    RoundToFloat(IF n < 0 THEN -1 ELSE 1, BitsOf(IF n < 0 THEN -n ELSE n), 0, FALSE)

\* a < b for two sequences of bits of one length
BitsLess(a, b) ==
    \E k \in 1..Len(a) : a[k] < b[k] /\ \A j \in 1..k - 1 : a[j] = b[j]

Limb == 24

\* a + b + carry, for two sequences of bits of one length, a multiple of Limb
RECURSIVE BitsSum(_, _, _)
BitsSum(a, b, carry) ==
    IF a = <<>> THEN <<carry>>
    ELSE BitsSum(SubSeq(a, 1, Len(a) - Limb), SubSeq(b, 1, Len(b) - Limb),
                 (ValueOf(SubSeq(a, Len(a) - Limb + 1, Len(a)))
                    + ValueOf(SubSeq(b, Len(b) - Limb + 1, Len(b))) + carry) \div 2^Limb)
         \o FixedBits((ValueOf(SubSeq(a, Len(a) - Limb + 1, Len(a)))
                         + ValueOf(SubSeq(b, Len(b) - Limb + 1, Len(b))) + carry) % 2^Limb,
                      Limb)

\* a - b - borrow, for two sequences of bits of one length, a multiple of
\* Limb, when a >= b + borrow
RECURSIVE BitsDifference(_, _, _)
BitsDifference(a, b, borrow) ==
    IF a = <<>> THEN <<>>
    ELSE BitsDifference(SubSeq(a, 1, Len(a) - Limb), SubSeq(b, 1, Len(b) - Limb),
                        IF ValueOf(SubSeq(a, Len(a) - Limb + 1, Len(a)))
                             < ValueOf(SubSeq(b, Len(b) - Limb + 1, Len(b))) + borrow
                        THEN 1 ELSE 0)
         \o FixedBits((ValueOf(SubSeq(a, Len(a) - Limb + 1, Len(a))) + 2^Limb
                         - ValueOf(SubSeq(b, Len(b) - Limb + 1, Len(b))) - borrow) % 2^Limb,
                      Limb)

\* |x| < |y|
MagnitudeLess(x, y) ==
    IF y.m = <<>> THEN FALSE
    ELSE IF x.m = <<>> THEN TRUE
    ELSE IF x.e # y.e THEN x.e < y.e
    ELSE BitsLess(x.m, y.m)

\* x >= y
FloatGe(x, y) ==
    IF x.m = <<>> /\ y.m = <<>> THEN TRUE
    ELSE IF x.m = <<>> THEN y.sign = -1
    ELSE IF y.m = <<>> THEN x.sign = 1
    ELSE IF x.sign # y.sign THEN x.sign = 1
    ELSE IF x.sign = 1 THEN ~MagnitudeLess(x, y)
    ELSE ~MagnitudeLess(y, x)

\* the bits of |x| in units of 2^e, e <= x.e
Aligned(x, e) == x.m \o Zeros(x.e - e)

\* x + y in float64
FloatSum(x, y) ==
    IF x.m = <<>> THEN y
    ELSE IF y.m = <<>> THEN x
    ELSE CHOOSE f \in
      { IF x.sign = y.sign
        THEN RoundToFloat(x.sign, BitsSum(Padded(Zeros(n - Len(Aligned(x, e))) \o Aligned(x, e), Limb),
                                          Padded(Zeros(n - Len(Aligned(y, e))) \o Aligned(y, e), Limb), 0),
                          e, FALSE)
        ELSE IF MagnitudeLess(x, y)
        THEN RoundToFloat(y.sign, BitsDifference(Padded(Zeros(n - Len(Aligned(y, e))) \o Aligned(y, e), Limb),
                                                 Padded(Zeros(n - Len(Aligned(x, e))) \o Aligned(x, e), Limb), 0),
                          e, FALSE)
        ELSE RoundToFloat(x.sign, BitsDifference(Padded(Zeros(n - Len(Aligned(x, e))) \o Aligned(x, e), Limb),
                                                 Padded(Zeros(n - Len(Aligned(y, e))) \o Aligned(y, e), Limb), 0),
                          e, FALSE)
        : e \in {IF x.e < y.e THEN x.e ELSE y.e},
          n \in {Precision + (IF x.e < y.e THEN y.e - x.e ELSE x.e - y.e)} } : TRUE

\* x + seq[1] + ... + seq[Len(seq)], each sum rounded: the loops of numpy
RECURSIVE AddedInOrder(_, _)
AddedInOrder(x, seq) ==
    IF seq = <<>> THEN x
    ELSE FloatSum(AddedInOrder(x, SubSeq(seq, 1, Len(seq) - 1)), seq[Len(seq)])

\* numpy adds the terms of a block in eight sums, of the terms 8 places apart
Lanes == 8
\* and splits a sum of more terms than this into two
MaxBlock == 128

\* .sum() of a float64 column, as numpy adds it (pairwise summation): fewer
\* than 8 terms from the first to the last; up to 128 terms in eight sums
\* r[j] of the terms j, j + 8, ..., added as ((r0 + r1) + (r2 + r3)) +
\* ((r4 + r5) + (r6 + r7)), then the terms left over; more terms in two parts,
\* the first of n / 2 terms less n / 2 % 8
RECURSIVE FloatTotal(_)
FloatTotal(seq) ==
    IF Len(seq) < Lanes THEN AddedInOrder(FloatZero, seq)
    ELSE IF Len(seq) <= MaxBlock
    THEN LET blocks == Len(seq) \div Lanes
             r(j) == AddedInOrder(FloatZero,
                                  [k \in 1..blocks |-> seq[Lanes * (k - 1) + j]])
         IN AddedInOrder(
                FloatSum(FloatSum(FloatSum(r(1), r(2)), FloatSum(r(3), r(4))),
                         FloatSum(FloatSum(r(5), r(6)), FloatSum(r(7), r(8)))),
                SubSeq(seq, Lanes * blocks + 1, Len(seq)))
    ELSE LET n2 == (Len(seq) \div 2) - ((Len(seq) \div 2) % Lanes)
         IN FloatSum(FloatTotal(SubSeq(seq, 1, n2)),
                     FloatTotal(SubSeq(seq, n2 + 1, Len(seq))))

\* a * n + carry, for a sequence of bits a multiple of Limb long and
\* 0 < n < 128
RECURSIVE BitsTimes(_, _, _)
BitsTimes(a, n, carry) ==
    IF a = <<>> THEN FixedBits(carry, 8)
    ELSE CHOOSE product \in
      { BitsTimes(SubSeq(b, 1, Len(b) - Limb), n, limb \div 2^Limb)
        \o FixedBits(limb % 2^Limb, Limb)
        : b \in {a},
          limb \in {ValueOf(SubSeq(a, Len(a) - Limb + 1, Len(a))) * n + carry} } : TRUE

\* x * n in float64, for an integer n, 0 < n < 128
FloatTimes(x, n) ==
    IF x.m = <<>> THEN FloatZero
    ELSE RoundToFloat(x.sign, BitsTimes(Padded(x.m, Limb), n, 0), x.e, FALSE)

\* f"{x:.1f}": the decimal of one place nearest to x, ties to even, as its
\* number of tenths (357 is '35.7'); |x| < 2^26
Format1f(x) ==
    IF x.m = <<>> THEN 0
    ELSE CHOOSE tenths \in
      { x.sign *
        ( IF x.e >= 0 THEN ValueOf(StripZeros(b) \o Zeros(x.e))
          ELSE LET whole == ValueOf(StripZeros(SubSeq(b, 1, Len(b) + x.e)))
                   half == b[Len(b) + x.e + 1] = 1
                   more == \E k \in Len(b) + x.e + 2..Len(b) : b[k] = 1
               IN whole + (IF half /\ (more \/ whole % 2 = 1) THEN 1 ELSE 0) )
        : b \in { Zeros(1 - x.e) \o StripZeros(BitsTimes(Padded(x.m, Limb), 10, 0)) } }
      : TRUE

\* app.py line 70: the empty dict
NoKpis == [raised |-> FALSE, none |-> TRUE]

\* lines 29 and 66: (completed / total) * 100 in float64, total > 0
CompletionRate(completed, total) ==
    FloatTimes(FloatDivided(FloatOf(completed), total), 100)

\* .mean() of whole numbers: their sum, exact, divided by their count in
\* float64; NaN when there is none
Mean(seq) ==
    IF Len(seq) = 0 THEN Null ELSE Some(FloatDivided(FloatOf(Sum(seq)), Len(seq)))

\* the cells of column c in the rows of d at the positions ps
Cells(d, ps, c) ==
    CHOOSE cells \in {[k \in 1..Len(p) |-> d.rows[p[k]][c]] : p \in {ps}} : TRUE

\* the values of the cells that are not missing: what .sum() and .mean() read
Present(cells) ==
    CHOOSE values \in
      { [k \in 1..Len(p) |-> Val(p[k])]
        : p \in {SelectSeq(cells, LAMBDA c : ~IsNa(c))} } : TRUE

\* lines 64-70: the kpis of the bloc whose Task rows are at the positions ps
BlocKpis(d, ps) ==
    CHOOSE kpi \in
      { [total_tasks |-> Len(bloc_tasks),
         completed |-> Len(completed),
         completion_rate |-> CompletionRate(Len(completed), Len(bloc_tasks)),
         avg_progress |-> Mean(Present(Cells(d, bloc_tasks, "progress"))),
         total_value |-> Sum(Present(Cells(d, bloc_tasks, "value")))]
        : bloc_tasks \in {ps},
          completed \in {SelectSeq(ps, LAMBDA i : d.rows[i].progress = Some(100))} }
      : TRUE

\* lines 55-72: per bloc label of the Task rows
KpiByBloc(d) ==
    CHOOSE kpi_bloc \in
      { [b \in {Val(d.rows[i].bloc) : i \in {j \in SeqRange(tasks) : ~IsNa(d.rows[j].bloc)}}
           |-> BlocKpis(d, SelectSeq(tasks, LAMBDA i : d.rows[i].bloc = Some(b)))]
        : tasks \in {Tasks(d)} } : TRUE

\* lines 12-53; start_date and end_date are Null when the keys are not set
CalculateKpis(d) ==
    IF LacksAny(d, {"progress", "duration", "value", "start_date", "end_date"})
    THEN [raised |-> TRUE, none |-> TRUE]
    ELSE CHOOSE kpis_dict \in
      { [raised |-> FALSE, none |-> FALSE,
         total_tasks |-> Len(tasks),
         completed_tasks |-> Len(completed),
         completion_rate |->
            IF Len(tasks) > 0 THEN CompletionRate(Len(completed), Len(tasks))
            ELSE FloatZero,
         avg_duration |->
            IF Len(durations) > 0 THEN Val(Mean(durations)) ELSE FloatZero,
         total_value |-> Sum(Present(Cells(d, tasks, "value"))),
         start_date |->
            IF Len(tasks_with_dates) > 0
            THEN MinOf({d.rows[i].start_date : i \in SeqRange(tasks_with_dates)})
            ELSE Null,
         end_date |->
            IF Len(tasks_with_dates) > 0
            THEN MaxOf({d.rows[i].end_date : i \in SeqRange(tasks_with_dates)})
            ELSE Null,
         kpi_by_bloc |-> KpiByBloc(d)]
        : tasks \in {Tasks(d)},
          completed \in {SelectSeq(Tasks(d), LAMBDA i : d.rows[i].progress = Some(100))},
          durations \in {Present(Cells(d, Tasks(d), "duration"))},
          tasks_with_dates \in {DropNa(d, Tasks(d), {"start_date", "end_date"})} }
      : TRUE

\* the literal 0.9 of line 98: the float nearest to 9 / 10
Float0_9 == FloatDivided(FloatOf(9), 10)

\* lines 96-101
EvStatus(spi) ==
    IF FloatGe(spi, FloatOf(1)) THEN "En avance"
    ELSE IF FloatGe(spi, Float0_9) THEN "Dans les temps"
    ELSE "En retard"

\* lines 93-108, with the sums of lines 87 and 90
EvMetrics(pv, ev) ==
    CHOOSE metrics \in
      { [raised |-> FALSE, none |-> FALSE,
         planned_value |-> pv, earned_value |-> ev,
         spi |-> spi, status |-> EvStatus(spi)]
        : spi \in {IF pv > 0 THEN FloatDivided(ev, pv) ELSE FloatZero} } : TRUE

\* lines 74-108.  value and progress hold whole numbers, so pv and each
\* product value * progress are exact; line 90 divides each product by 100 in
\* float64 and adds the quotients as numpy does, line 93 divides in float64.
CalculateEarnedValue(d) ==
    IF LacksAny(d, {"value", "progress"}) THEN [raised |-> TRUE, none |-> TRUE]
    ELSE
    LET tasks == DropNa(d, Tasks(d), {"value", "progress"})
    IN IF Len(tasks) = 0 THEN NoMetrics
       ELSE CHOOSE metrics \in
         { EvMetrics(pv, ev)
           : pv \in {Sum([k \in 1..Len(tasks) |-> Val(d.rows[tasks[k]].value)])},
             ev \in {FloatTotal([k \in 1..Len(tasks) |->
                        FloatDivided(FloatOf(Val(d.rows[tasks[k]].value)
                                               * Val(d.rows[tasks[k]].progress)),
                                     100)])} } : TRUE

-----------------------------------------------------------------------------
(* parse_excel, exporters.py and the script of app.py *)

\* planning_parser.py lines 45-56 on the mapped table of a file: an exception
\* of _detect_structure or _clean_data leaves parse_excel as "Erreur parsing"
ParseExcel(df_mapped, among_dates) ==
    LET structured == DetectStructure(df_mapped.rows)
        clean == CleanData([absent |-> df_mapped.absent, rows |-> structured.df],
                           among_dates)
    IN IF structured.raised THEN [raised |-> TRUE, df |-> [absent |-> {}, rows |-> <<>>]]
       ELSE clean

\* seq[:n]
Truncated(seq, n) == SubSeq(seq, 1, IF Len(seq) < n THEN Len(seq) ELSE n)

\* exporters.py lines 12-48: the three sheets of the workbook
ExportToExcel(d) ==
    [complet |-> d,
     taches |-> [k \in 1..Len(Tasks(d)) |-> d.rows[Tasks(d)[k]]],
     blocs |-> {d.rows[i].bloc : i \in {j \in 1..Len(d.rows) : d.rows[j].level = BLOC}}]

\* exporters.py lines 206-212, row.get(col, default): the cell of the row, or
\* the default where the table has no such column
Printed(d, row, col, default) ==
    IF col \in d.absent THEN default ELSE row[col]

\* exporters.py lines 50-227: what the report interpolates; title and
\* generation are the days datetime.now() gives at lines 63 and 154.  The
\* rate and the value in millions are printed with one decimal place (lines
\* 167, 171), 0 where the dict has no key; a progress, a whole number, is
\* printed as it is by '.0f' (line 212), 0 where there is no such column.
ExportToHtml(d, alerts, k, title, generation) ==
    [title |-> title,
     generation |-> generation,
     kpis |-> IF k.none THEN <<0, 0, 0, 0>>
              ELSE <<k.total_tasks, k.completed_tasks,
                     Format1f(k.completion_rate),
                     Format1f(FloatDivided(FloatOf(k.total_value), 1000000))>>,
     total_alertes |-> Len(alerts),
     alerts |-> [n \in 1..Len(Truncated(alerts, 20)) |->
                   <<alerts[n].severity, alerts[n].message>>],
     tasks |-> [n \in 1..Len(Truncated(Tasks(d), 50)) |->
                   LET row == d.rows[Tasks(d)[n]]
                   IN <<Printed(d, row, "bloc", Some("N/A")),
                        Printed(d, row, "phase", Some("N/A")),
                        Printed(d, row, "task_name", Some("N/A")),
                        Printed(d, row, "start_date", Some("N/A")),
                        Printed(d, row, "end_date", Some("N/A")),
                        Printed(d, row, "duration", Some("N/A")),
                        Printed(d, row, "progress", Some(0))>>]]

\* generate_demo_data, lines 182-186, 219-223, 269-275 and 321-325: bloc,
\* phase, name, duration, progress and value of the fourteen tasks.  "A", "B"
\* and "C" stand for 'INFRASTRUCTURE', 'STRUCTURE' and 'SECOND ŒUVRE', "1" to
\* "4" for '1.1 - Terrassement', '1.2 - Fondations', '2.1 - Élévation' and
\* '3.1 - Électricité', "a" to "n" for the names from 'Décapage terrain' to
\* 'Tableaux électriques'
DemoTasks ==
    << <<"A", "1", "a", 5, 100, 50000>>,
       <<"A", "1", "b", 10, 100, 120000>>,
       <<"A", "1", "c", 7, 80, 85000>>,
       <<"A", "2", "d", 8, 100, 180000>>,
       <<"A", "2", "e", 6, 90, 140000>>,
       <<"A", "2", "f", 12, 60, 220000>>,
       <<"B", "3", "g", 10, 100, 250000>>,
       <<"B", "3", "h", 8, 100, 180000>>,
       <<"B", "3", "i", 6, 70, 200000>>,
       <<"B", "3", "j", 10, 40, 250000>>,
       <<"B", "3", "k", 8, 20, 180000>>,
       <<"C", "4", "l", 15, 0, 120000>>,
       <<"C", "4", "m", 20, 0, 180000>>,
       <<"C", "4", "n", 5, 0, 80000>> >>

\* lines 153-164, 240-251, 292-303: the row of a bloc
DemoBloc(bloc) ==
    Row(BLOC, Some(<<bloc>>), Null, Some(<<bloc>>), Null, Null, Null, Null, Null)
    @@ [status |-> Null]

\* lines 167-178, 203-214, 254-265, 306-317: the row of a phase
DemoPhase(bloc, phase) ==
    Row(PHASE, Some(<<bloc>>), Some(<<phase>>), Some(<<phase>>),
        Null, Null, Null, Null, Null)
    @@ [status |-> Null]

\* lines 188-201 and alike: the row of the task n; current_date is
\* start_base, day 1, plus the durations of the tasks before
DemoTask(n) ==
    LET task == DemoTasks[n]
        current_date == 1 + Sum([k \in 1..n - 1 |-> DemoTasks[k][4]])
    IN Row(TACHE, Some(<<task[1]>>), Some(<<task[2]>>), Some(<<task[3]>>),
           Some(current_date), Some(current_date + task[4]), Some(task[4]),
           Some(task[5]), Some(task[6]))
       @@ [status |-> IF task[2] = "4" THEN Some("Non démarré")
                      ELSE IF task[5] = 100 THEN Some("Achevé")
                      ELSE Some("En cours")]

\* generate_demo_data (planning_parser.py 147-343): the 21 rows
DemoData ==
    [absent |-> {},
     rows |-> <<DemoBloc("A"), DemoPhase("A", "1")>>
              \o [n \in 1..3 |-> DemoTask(n)]
              \o <<DemoPhase("A", "2")>>
              \o [n \in 1..3 |-> DemoTask(n + 3)]
              \o <<DemoBloc("B"), DemoPhase("B", "3")>>
              \o [n \in 1..5 |-> DemoTask(n + 6)]
              \o <<DemoBloc("C"), DemoPhase("C", "4")>>
              \o [n \in 1..3 |-> DemoTask(n + 11)]]

\* app.py lines 64-74
InitialSession ==
    [df_planning |-> Null, alerts |-> <<>>, kpis |-> NoKpis,
     excel_buffer |-> Null, html_report |-> Null]

\* lines 121-133 with the outcome parsed of parse_excel: the table kept
Kept(parsed) ==
    IF ~parsed.raised /\ Len(parsed.df.rows) > 0 THEN Some(parsed.df) ELSE Null

\* lines 114-133: st.session_state.df_planning after the loading step
Loaded(s, demo, file, among_dates) ==
    IF demo THEN Some(DemoData)
    ELSE IF ~IsNa(file)
    THEN CHOOSE kept \in {Kept(parsed) :
                            parsed \in {ParseExcel(Val(file), among_dates)}} : TRUE
    ELSE s.df_planning

\* lines 126-133: the run showed a loading error
LoadFailed(demo, file, among_dates) ==
    /\ ~demo
    /\ ~IsNa(file)
    /\ IsNa(Loaded(InitialSession, demo, file, among_dates))

Page(displayed, failed, excel, html, export_error) ==
    [displayed |-> displayed, load_failed |-> failed,
     offers_excel |-> excel, offers_html |-> html,
     export_error |-> export_error]

\* lines 345-353: the buffer after the Excel button; excel_raises when
\* export_to_excel raises, as pd.ExcelWriter does at exporters.py line 21
\* where xlsxwriter is not installed: line 353 reports it and the buffer stays
ExcelAfter(s, d, click, excel_raises) ==
    IF click = "excel" /\ ~excel_raises THEN Some(ExportToExcel(d))
    ELSE s.excel_buffer

\* lines 364-376: the report after the HTML button, from the alerts and the
\* kpis of the session
HtmlAfter(s, d, alerts, k, click, clock) ==
    IF click = "html"
    THEN Some(ExportToHtml(d, alerts, k, clock.title, clock.generation))
    ELSE s.html_report

\* The days datetime.now() gives a run, in the order of its readings:
\* validators.py line 184, then exporters.py lines 63 and 154
Clock(validate, title, generation) ==
    [validate |-> validate, title |-> title, generation |-> generation]

\* lines 145-386: the run after lines 140 and 143 returned v and k
Shown(s, loaded, failed, click, excel_raises, clock, v, k) ==
    CHOOSE run \in
      { [session |->
            [df_planning |-> loaded, alerts |-> v.alerts, kpis |-> k,
             excel_buffer |-> excel, html_report |-> html],
         view |-> Page(TRUE, failed, ~IsNa(excel), ~IsNa(html),
                       click = "excel" /\ excel_raises)]
        : excel \in {ExcelAfter(s, Val(loaded), click, excel_raises)},
          html \in {HtmlAfter(s, Val(loaded), v.alerts, k, click, clock)} } : TRUE

\* lines 136-143 with the outcomes v of validate and k of calculate_kpis: an
\* exception of validate (line 140) or calculate_kpis (line 143) ends the run
\* before anything of the table is shown
Validated(s, loaded, failed, click, excel_raises, clock, v, k) ==
    IF v.raised
    THEN [session |-> [s EXCEPT !.df_planning = loaded],
          view |-> Page(FALSE, failed, FALSE, FALSE, FALSE)]
    ELSE IF k.raised
    THEN [session |-> [s EXCEPT !.df_planning = loaded, !.alerts = v.alerts],
          view |-> Page(FALSE, failed, FALSE, FALSE, FALSE)]
    ELSE Shown(s, loaded, failed, click, excel_raises, clock, v, k)

\* lines 136-386: the run from line 136 on, with the table the loading step
\* left in the session, v what validate does at line 140 and k what
\* calculate_kpis does at line 143
Display(s, loaded, failed, click, excel_raises, clock, v, k) ==
    IF IsNa(loaded)
    THEN [session |-> [s EXCEPT !.df_planning = Null],
          view |-> Page(FALSE, failed, FALSE, FALSE, FALSE)]
    ELSE Validated(s, loaded, failed, click, excel_raises, clock, v, k)

\* line 140: validator.validate(df) under the sort order and the day of the
\* run; nothing is validated when no table is loaded (line 136)
RunValidate(loaded, order, now) ==
    IF IsNa(loaded) THEN [raised |-> FALSE, alerts |-> <<>>]
    ELSE Validate(Val(loaded), order, now)

\* line 143: analytics.calculate_kpis(df), which reads the table only
RunKpis(loaded) ==
    IF IsNa(loaded) THEN NoKpis ELSE CalculateKpis(Val(loaded))

\* the orders the sorts of a run can give on the table it loaded; a run that
\* does not call validate (line 136) or does not sort leaves the order given
\* before
RunOrders(loaded, before) ==
    IF IsNa(loaded) THEN {before} ELSE ValidateOrders(Val(loaded), before)

\* the day line 184 reads in a run at the day now; a run that does not call
\* validate (line 136) or does not come to line 184 leaves the day read before
RunDay(loaded, now, before) ==
    IF ~IsNa(loaded) /\ ReadsClock(Val(loaded)) THEN now ELSE before

-----------------------------------------------------------------------------
(* Inputs of the detector *)

MaxDetectRows == 3

\* texts of the task column: "", " ", "A", " B", "1", "-a", "1A", "a", "."
DetectTexts ==
    { <<>>, <<" ">>, <<"A">>, <<" ", "B">>, <<"1">>, <<"-", "a">>,
      <<"1", "A">>, <<"a">>, <<".">> }

\* texts of the rows that carry a start date
DatedTexts == { <<" ">>, <<"A">>, <<"1">>, <<"a">> }

MappedRow(task, start) ==
    [task |-> task, start |-> start, level |-> Null, bloc |-> Null, phase |-> Null]

DetectRowDomain ==
    {MappedRow(Null, Null)}
    \cup {MappedRow(Some(t), Null) : t \in DetectTexts}
    \cup {MappedRow(Some(t), Some(1)) : t \in DatedTexts}

DetectInputs == UNION {[1..n -> DetectRowDomain] : n \in 0..MaxDetectRows}

-----------------------------------------------------------------------------
(* The detector as a state machine *)

NoTable == [absent |-> {}, rows |-> <<>>]
NoResult == [raised |-> FALSE, alerts |-> <<>>]
NoSummary == [k \in {} |-> 0]

NoClean == [raised |-> FALSE, df |-> NoTable]

\* the variables of analytics.py while another part runs
AnalyticsIdle ==
    /\ kpis = NoKpis
    /\ ev_metrics = NoMetrics
    /\ frames = NoFrames

\* the variables of _clean_data while another part runs
CleanerIdle ==
    /\ df_structured = NoTable
    /\ df_clean = NoClean

\* the variables of app.py while another part runs
AppIdle ==
    /\ session = InitialSession
    /\ view = Page(FALSE, FALSE, FALSE, FALSE, FALSE)
    /\ demo_mode = FALSE
    /\ uploaded_file = Null

\* the validator's variables while the detector runs
ValidatorIdle ==
    /\ df = NoTable
    /\ today = 0
    /\ sort_order = <<>>
    /\ result = NoResult
    /\ summary = NoSummary

InitDetect ==
    /\ rows \in DetectInputs
    /\ res = <<>>
    /\ current_bloc = Null
    /\ current_phase = Null
    /\ idx = 0
    /\ nwrites = <<>>
    /\ res2 = [raised |-> FALSE, df |-> <<>>]
    /\ ValidatorIdle
    /\ AnalyticsIdle
    /\ CleanerIdle
    /\ AppIdle
    /\ pc = "call"

\* lines 72-80
DetectBegin ==
    /\ pc = "call"
    /\ res' = InitColumns(rows)
    /\ current_bloc' = Null
    /\ current_phase' = Null
    /\ idx' = 1
    /\ nwrites' = [i \in 1..Len(rows) |-> 0]
    /\ pc' = "loop"
    /\ UNCHANGED <<rows, res2>>
    /\ UNCHANGED valVars
    /\ UNCHANGED <<anaVars, cleanVars>>
    /\ UNCHANGED appVars

\* one iteration of the loop of line 82 that takes branch b
DetectIter(b) ==
    /\ pc = "loop"
    /\ idx <= Len(res)
    /\ Branch(RowAt(res, idx)) = b
    /\ res' = [res EXCEPT ![idx] =
                 ApplyWrites(res[idx],
                             Writes(RowAt(res, idx), current_bloc, current_phase))]
    /\ nwrites' = [nwrites EXCEPT ![idx] =
                     LevelWrites(Writes(RowAt(res, idx), current_bloc, current_phase))]
    /\ current_bloc' = NextBloc(RowAt(res, idx), current_bloc)
    /\ current_phase' = NextPhase(RowAt(res, idx), current_phase)
    /\ idx' = idx + 1
    /\ UNCHANGED <<rows, res2, pc>>
    /\ UNCHANGED valVars
    /\ UNCHANGED <<anaVars, cleanVars>>
    /\ UNCHANGED appVars

DetectSkip == DetectIter("skip")
DetectBloc == DetectIter("bloc")
DetectPhase == DetectIter("phase")
DetectTache == DetectIter("tache")

\* line 95 on an empty task_str: IndexError leaves the function
DetectRaise ==
    /\ pc = "loop"
    /\ idx <= Len(res)
    /\ Branch(RowAt(res, idx)) = "raise"
    /\ pc' = "raised"
    /\ UNCHANGED detVars
    /\ UNCHANGED valVars
    /\ UNCHANGED <<anaVars, cleanVars>>
    /\ UNCHANGED appVars

\* line 107
DetectReturn ==
    /\ pc = "loop"
    /\ idx > Len(res)
    /\ pc' = "returned"
    /\ UNCHANGED detVars
    /\ UNCHANGED valVars
    /\ UNCHANGED <<anaVars, cleanVars>>
    /\ UNCHANGED appVars

\* _detect_structure called on the table it returned
DetectAgain ==
    /\ pc = "returned"
    /\ res2' = DetectStructure(res)
    /\ pc' = "rerun"
    /\ UNCHANGED <<rows, res, current_bloc, current_phase, idx, nwrites>>
    /\ UNCHANGED valVars
    /\ UNCHANGED <<anaVars, cleanVars>>
    /\ UNCHANGED appVars

NextDetect ==
    \/ DetectBegin
    \/ DetectSkip
    \/ DetectBloc
    \/ DetectPhase
    \/ DetectTache
    \/ DetectRaise
    \/ DetectReturn
    \/ DetectAgain

SpecDetect == InitDetect /\ [][NextDetect]_vars

-----------------------------------------------------------------------------
(* The validator as a state machine *)

\* the detector's variables while the validator runs
DetectorIdle ==
    /\ rows = <<>>
    /\ res = <<>>
    /\ current_bloc = Null
    /\ current_phase = Null
    /\ idx = 0
    /\ nwrites = <<>>
    /\ res2 = [raised |-> FALSE, df |-> <<>>]

MaxValidateRows == 3

\* rows of the tables given to validate(): a sound task, a task with nothing
\* filled in, a task with every defect, a task overlapping the first one, a
\* Block row and a Phase row
ValidateRows ==
    { Row(TACHE, Some("B"), Some("P1"), Some("T1"),
          Some(1), Some(5), Some(4), Some(50), Some(100)),
      Row(TACHE, Null, Null, Some("T2"), Null, Null, Null, Null, Null),
      Row(TACHE, Some("B"), Some("P1"), Some("T3"),
          Some(5), Some(3), Some(4), Some(101), Null),
      Row(TACHE, Some("B"), Some("P1"), Some("T4"),
          Some(3), Some(6), Some(3), Some(0), Some(50)),
      Row(BLOC, Some("B"), Null, Some("B"), Null, Null, Null, Null, Null),
      Row(PHASE, Some("B"), Some("P1"), Some("P1"), Null, Null, Null, Null, Null) }

\* app.py validates a parsed table only when it has rows (line 124), and
\* _clean_data (line 120) raises when 'start' and 'end' were mapped and
\* 'duration' was not, so the parser returns no such table
ParserCanProduce(absent) ==
    "duration" \in absent => ("start_date" \in absent \/ "end_date" \in absent)

\* a table without the columns of absent
WithoutCols(rs, absent) ==
    [absent |-> absent,
     rows |-> [i \in 1..Len(rs) |->
                 [c \in DOMAIN rs[i] |-> IF c \in absent THEN Null ELSE rs[i][c]]]]

ValidateInputs ==
    {WithoutCols(rs, absent) :
        rs \in UNION {[1..n -> ValidateRows] : n \in 1..MaxValidateRows},
        absent \in {a \in SUBSET OptionalCols : ParserCanProduce(a)}}

InitValidate ==
    /\ DetectorIdle
    /\ AnalyticsIdle
    /\ CleanerIdle
    /\ AppIdle
    /\ df \in ValidateInputs
    /\ today = 0
    /\ sort_order = <<>>
    /\ result = NoResult
    /\ summary = NoSummary
    /\ pc = "ready"

\* validator.validate(df) returns
ValidateReturns ==
    /\ pc = "ready"
    /\ \E now \in ValidateDays(df, today), order \in ValidateOrders(df, sort_order) :
        /\ ~Validate(df, order, now).raised
        /\ result' = Validate(df, order, now)
        /\ today' = now
        /\ sort_order' = order
    /\ pc' = "validated"
    /\ UNCHANGED <<df, summary>>
    /\ UNCHANGED detVars
    /\ UNCHANGED <<anaVars, cleanVars>>
    /\ UNCHANGED appVars

\* validator.validate(df) is left by an exception: the clock is read and the
\* rows are sorted only when the raise comes after lines 184 and 149
ValidateRaises ==
    /\ pc = "ready"
    /\ \E now \in ValidateDays(df, today), order \in ValidateOrders(df, sort_order) :
        /\ Validate(df, order, now).raised
        /\ result' = Validate(df, order, now)
        /\ today' = now
        /\ sort_order' = order
    /\ pc' = "raised"
    /\ UNCHANGED <<df, summary>>
    /\ UNCHANGED detVars
    /\ UNCHANGED <<anaVars, cleanVars>>
    /\ UNCHANGED appVars

\* validator.get_summary(alerts)
CallGetSummary ==
    /\ pc = "validated"
    /\ summary' = GetSummary(result.alerts)
    /\ pc' = "summarised"
    /\ UNCHANGED <<df, today, sort_order, result>>
    /\ UNCHANGED detVars
    /\ UNCHANGED <<anaVars, cleanVars>>
    /\ UNCHANGED appVars

NextValidate ==
    \/ ValidateReturns
    \/ ValidateRaises
    \/ CallGetSummary

SpecValidate == InitValidate /\ [][NextValidate]_vars

MaxAlerts == 3

\* severities of the alert lists given to get_summary
SummarySeverities == {"error", "warning", "info", "critical", "total"}

AlertLists ==
    UNION {[1..n -> {Alert(sv, "", Null, <<>>, <<>>) : sv \in SummarySeverities}] :
             n \in 0..MaxAlerts}

InitSummary ==
    /\ DetectorIdle
    /\ AnalyticsIdle
    /\ CleanerIdle
    /\ AppIdle
    /\ df = NoTable
    /\ today = 0
    /\ sort_order = <<>>
    /\ result \in {Returned(al) : al \in AlertLists}
    /\ summary = NoSummary
    /\ pc = "validated"

SpecSummary == InitSummary /\ [][CallGetSummary]_vars

-----------------------------------------------------------------------------
(* Single rules *)

\* task names by position, so that a name tells the row
TaskNames == <<"T1", "T2", "T3", "T4", "T5", "T6">>

Named(rs) == [i \in 1..Len(rs) |-> [rs[i] EXCEPT !.task_name = Some(TaskNames[i])]]

MaxOverlapRows == 3

\* rows for the overlap rule: tasks of two phases with start in 1..3 and end
\* in {2, 5}, and four rows the rule must leave out
OverlapRows ==
    { Row(TACHE, Some("B"), Some(ph), Null, Some(st), Some(en), Null, Null, Null) :
        ph \in {"P1", "P2"}, st \in 1..3, en \in {2, 5} }
    \cup
    { Row(TACHE, Some("B"), Null, Null, Some(1), Some(5), Null, Null, Null),
      Row(TACHE, Some("B"), Some("P1"), Null, Null, Some(5), Null, Null, Null),
      Row(TACHE, Some("B"), Some("P1"), Null, Some(1), Null, Null, Null, Null),
      Row(PHASE, Some("B"), Some("P1"), Null, Some(1), Some(5), Null, Null, Null) }

OverlapInputs ==
    {WithoutCols(Named(rs), {}) :
        rs \in UNION {[1..n -> OverlapRows] : n \in 0..MaxOverlapRows}}

InitOverlap ==
    /\ DetectorIdle
    /\ AnalyticsIdle
    /\ CleanerIdle
    /\ AppIdle
    /\ df \in OverlapInputs
    /\ today = 0
    /\ sort_order = <<>>
    /\ result = NoResult
    /\ summary = NoSummary
    /\ pc = "ready"

\* validator._check_overlapping_tasks(df)
CallOverlappingTasks ==
    /\ pc = "ready"
    /\ \E order \in IF Sorts(df) THEN SortOrders(df) ELSE {sort_order} :
        /\ result' = CheckOverlappingTasks(df, order)
        /\ sort_order' = order
    /\ pc' = "done"
    /\ UNCHANGED <<df, today, summary>>
    /\ UNCHANGED detVars
    /\ UNCHANGED <<anaVars, cleanVars>>
    /\ UNCHANGED appVars

SpecOverlap == InitOverlap /\ [][CallOverlappingTasks]_vars

MaxDurationRows == 2

\* rows for the duration rule: tasks with start in {1, 3}, end in {1, 4} and
\* duration in {1, 2, 4, 5}, each possibly missing, and a Block row whose
\* duration disagrees with its dates
DurationRows ==
    { Row(TACHE, Some("B"), Some("P1"), Null, st, en, du, Null, Null) :
        st \in {Null, Some(1), Some(3)},
        en \in {Null, Some(1), Some(4)},
        du \in {Null, Some(1), Some(2), Some(4), Some(5)} }
    \cup
    { Row(BLOC, Some("B"), Null, Null, Some(1), Some(4), Some(1), Null, Null) }

DurationInputs ==
    {WithoutCols(Named(rs), {}) :
        rs \in UNION {[1..n -> DurationRows] : n \in 0..MaxDurationRows}}

InitDuration ==
    /\ DetectorIdle
    /\ AnalyticsIdle
    /\ CleanerIdle
    /\ AppIdle
    /\ df \in DurationInputs
    /\ today = 0
    /\ sort_order = <<>>
    /\ result = NoResult
    /\ summary = NoSummary
    /\ pc = "ready"

\* validator._check_duration_coherence(df)
CallDurationCoherence ==
    /\ pc = "ready"
    /\ result' = CheckDurationCoherence(df)
    /\ pc' = "done"
    /\ UNCHANGED <<df, today, sort_order, summary>>
    /\ UNCHANGED detVars
    /\ UNCHANGED <<anaVars, cleanVars>>
    /\ UNCHANGED appVars

SpecDuration == InitDuration /\ [][CallDurationCoherence]_vars

MaxValueRows == 3

\* rows for the missing-value rule: a row of each level, with and without value
ValueRows ==
    { Row(lv, Some("B"), Null, Null, Null, Null, Null, Null, va) :
        lv \in Levels, va \in {Null, Some(100)} }

ValueInputs ==
    {WithoutCols(Named(rs), {}) :
        rs \in UNION {[1..n -> ValueRows] : n \in 0..MaxValueRows}}

InitMissingValues ==
    /\ DetectorIdle
    /\ AnalyticsIdle
    /\ CleanerIdle
    /\ AppIdle
    /\ df \in ValueInputs
    /\ today = 0
    /\ sort_order = <<>>
    /\ result = NoResult
    /\ summary = NoSummary
    /\ pc = "ready"

\* validator._check_missing_values(df)
CallMissingValues ==
    /\ pc = "ready"
    /\ result' = CheckMissingValues(df)
    /\ pc' = "done"
    /\ UNCHANGED <<df, today, sort_order, summary>>
    /\ UNCHANGED detVars
    /\ UNCHANGED <<anaVars, cleanVars>>
    /\ UNCHANGED appVars

SpecMissingValues == InitMissingValues /\ [][CallMissingValues]_vars

MaxProgressRows == 2

\* rows for the progress rule: a row of each level with progress missing, at
\* the two bounds, and just outside them
ProgressRows ==
    { Row(lv, Some("B"), Null, Null, Null, Null, Null, pr, Null) :
        lv \in Levels, pr \in {Null, Some(-1), Some(0), Some(100), Some(101)} }

ProgressInputs ==
    {WithoutCols(Named(rs), {}) :
        rs \in UNION {[1..n -> ProgressRows] : n \in 0..MaxProgressRows}}

InitProgressRange ==
    /\ DetectorIdle
    /\ AnalyticsIdle
    /\ CleanerIdle
    /\ AppIdle
    /\ df \in ProgressInputs
    /\ today = 0
    /\ sort_order = <<>>
    /\ result = NoResult
    /\ summary = NoSummary
    /\ pc = "ready"

\* validator._check_progress_range(df)
CallProgressRange ==
    /\ pc = "ready"
    /\ result' = CheckProgressRange(df)
    /\ pc' = "done"
    /\ UNCHANGED <<df, today, sort_order, summary>>
    /\ UNCHANGED detVars
    /\ UNCHANGED <<anaVars, cleanVars>>
    /\ UNCHANGED appVars

SpecProgressRange == InitProgressRange /\ [][CallProgressRange]_vars

MaxEarnedRows == 2

\* rows for the earned value: tasks with value in {0, 9, 100, 200} and
\* progress in {25, 50, 90, 100}, each possibly missing, and a Block row with
\* both
EarnedRows ==
    { Row(TACHE, Some("B"), Null, Null, Null, Null, Null, pr, va) :
        va \in {Null, Some(0), Some(9), Some(100), Some(200)},
        pr \in {Null, Some(25), Some(50), Some(90), Some(100)} }
    \cup
    { Row(BLOC, Some("B"), Null, Null, Null, Null, Null, Some(100), Some(100)) }

\* the longest of the long tables
MaxLongRows == 9

\* rows of the long tables: tasks at 90 % of value 1 or 3
LongRows ==
    { Row(TACHE, Some("B"), Null, Null, Null, Null, Null, Some(90), Some(va)) :
        va \in {1, 3} }

\* tables of up to MaxEarnedRows rows of EarnedRows, and tables of 8 to
\* MaxLongRows rows of LongRows, which numpy adds in eight sums
EarnedInputs ==
    {WithoutCols(Named(rs), {}) :
        rs \in UNION {[1..n -> EarnedRows] : n \in 0..MaxEarnedRows}}
    \cup
    {WithoutCols(rs, {}) :
        rs \in UNION {[1..n -> LongRows] : n \in Lanes..MaxLongRows}}

InitEarnedValue ==
    /\ DetectorIdle
    /\ AnalyticsIdle
    /\ CleanerIdle
    /\ AppIdle
    /\ df \in EarnedInputs
    /\ today = 0
    /\ sort_order = <<>>
    /\ result = NoResult
    /\ summary = NoSummary
    /\ pc = "ready"

\* analytics.calculate_earned_value(df)
CallEarnedValue ==
    /\ pc = "ready"
    /\ ev_metrics' = CalculateEarnedValue(df)
    /\ pc' = "done"
    /\ UNCHANGED <<kpis, frames>>
    /\ UNCHANGED valVars
    /\ UNCHANGED detVars
    /\ UNCHANGED cleanVars
    /\ UNCHANGED appVars

SpecEarnedValue == InitEarnedValue /\ [][CallEarnedValue]_vars

-----------------------------------------------------------------------------
(* The DataFrame objects of a call of validators.py or analytics.py: the
   statements of each function that build a frame, bind one or can raise, in
   the order of the source, run on the objects the call starts with *)

\* the DataFrame object of a table: its rows under their index labels
Frame(d) ==
    [absent |-> d.absent, rows |-> d.rows,
     index |-> [i \in 1..Len(d.rows) |-> IndexOf(i)]]

\* the table a DataFrame object holds
Table(f) == [absent |-> f.absent, rows |-> f.rows]

\* the rows of f at the positions ps, in that order, under their labels
Taken(f, ps) ==
    [absent |-> f.absent,
     rows |-> [k \in 1..Len(ps) |-> f.rows[ps[k]]],
     index |-> [k \in 1..Len(ps) |-> f.index[ps[k]]]]

\* A statement: into is the object that receives what the statement builds,
\* from the object it reads, cols the columns it names. The methods this code
\* calls return a new object, so into is the variable the result is bound to
\* ("selected" and "selected_in_bloc" for a result that is not bound, "copied"
\* for the copy of line 69, whose variable line 70 binds again); a call with
\* inplace=True or an assignment into a frame would have into = from.
Statement(op, into, from, cols, val, each, order, body) ==
    [op |-> op, into |-> into, from |-> from, cols |-> cols, val |-> val,
     each |-> each, order |-> order, body |-> body]

\* into = from[from[col] == val]
Masked(into, from, col, val) ==
    Statement("mask", into, from, {col}, val, FALSE, <<>>, <<>>)

\* into = from[from[col] == v], v the value of the enclosing loop
MaskedEach(into, from, col) ==
    Statement("mask", into, from, {col}, Null, TRUE, <<>>, <<>>)

\* into = from.copy()
Copied(into, from) ==
    Statement("copy", into, from, {}, Null, FALSE, <<>>, <<>>)

\* into = from.dropna(subset=subset)
NaDropped(into, from, subset) ==
    Statement("dropna", into, from, subset, Null, FALSE, <<>>, <<>>)

\* into = from.sort_values(by), the sort giving the rows in the order order
\* (positions in df)
Sorted(into, from, by, order) ==
    Statement("sort_values", into, from, {by}, Null, FALSE, order, <<>>)

\* from[col], read
ColumnRead(from, col) ==
    Statement("read", "", from, {col}, Null, FALSE, <<>>, <<>>)

\* for idx, row in from.iterrows(), or from.iloc[i]: the rows are read
Iterated(from) ==
    Statement("read", "", from, {}, Null, FALSE, <<>>, <<>>)

\* for v in from[col].unique(): body
ForUnique(from, col, body) ==
    Statement("for", "", from, {col}, Null, FALSE, <<>>, body)

\* the values of a sequence of cells that are not null, each once, in the
\* order of their first place
RECURSIVE Distinct(_)
Distinct(cells) ==
    IF cells = <<>> THEN <<>>
    ELSE LET rest == Distinct(SubSeq(cells, 1, Len(cells) - 1))
             last == cells[Len(cells)]
         IN IF IsNa(last) \/ last \in SeqRange(rest) THEN rest
            ELSE Append(rest, last)

\* the statements a loop runs: its body once for each value of the column
Unrolled(st, objects) ==
    LET f == objects[st.from]
        col == CHOOSE c \in st.cols : TRUE
        values == Distinct([i \in 1..Len(f.rows) |-> f.rows[i][col]])
    IN Flatten([k \in 1..Len(values) |->
                  [j \in 1..Len(st.body) |->
                      IF st.body[j].each
                      THEN [st.body[j] EXCEPT !.val = values[k], !.each = FALSE]
                      ELSE st.body[j]]])

\* KeyError: the statement names a column the frame it reads does not have
StatementRaises(st, objects) == st.cols \cap objects[st.from].absent # {}

\* the frame a statement builds from the frame f
Built(st, f) ==
    CASE st.op = "mask" ->
           Taken(f, SelectSeq([i \in 1..Len(f.rows) |-> i],
                              LAMBDA i : f.rows[i][CHOOSE c \in st.cols : TRUE]
                                         = st.val))
      [] st.op = "copy" -> f
      [] st.op = "dropna" ->
           Taken(f, SelectSeq([i \in 1..Len(f.rows) |-> i],
                              LAMBDA i : \A c \in st.cols : ~IsNa(f.rows[i][c])))
      [] st.op = "sort_values" ->
           LET sorted == SelectSeq(st.order,
                                   LAMBDA i : IndexOf(i) \in SeqRange(f.index))
           IN Taken(f, [k \in 1..Len(sorted) |->
                          CHOOSE p \in 1..Len(f.index) :
                              f.index[p] = IndexOf(sorted[k])])

\* the objects after a statement that does not raise: what it builds is the
\* object into, every other object is as it was
Exec(st, objects) ==
    IF st.op = "read" THEN objects
    ELSE CHOOSE after \in
      { [n \in DOMAIN objects \cup {st.into} |->
            IF n = st.into THEN built ELSE objects[n]]
        : built \in {Built(st, objects[st.from])} } : TRUE

\* the statements sts run in order on run.objects; an exception ends the call
RECURSIVE Run(_, _)
Run(sts, run) ==
    IF sts = <<>> \/ run.raised THEN run
    ELSE IF StatementRaises(Head(sts), run.objects)
    THEN [run EXCEPT !.raised = TRUE]
    ELSE IF Head(sts).op = "for"
    THEN Run(Tail(sts), Run(Unrolled(Head(sts), run.objects), run))
    ELSE Run(Tail(sts), [run EXCEPT !.objects = Exec(Head(sts), @)])

\* the bug of a progress rule that drops the rows without progress from df
\* itself, df.dropna(subset=['progress'], inplace=True), the other rules as
\* they are
RuleStatementsInplace(rule, order) ==
    CASE rule = "missing_dates" ->
           << Masked("tasks", "df", "level", TACHE),
              Iterated("tasks") >>
      [] rule = "duration_coherence" ->
           << Masked("selected", "df", "level", TACHE),
              Copied("copied", "selected"),
              NaDropped("tasks", "copied", {"start_date", "end_date", "duration"}),
              Iterated("tasks") >>
      [] rule = "progress_range" ->
           << NaDropped("df", "df", {"progress"}),
              Masked("tasks", "df", "level", TACHE),
              Iterated("tasks") >>
      [] rule = "date_order" ->
           << Masked("selected", "df", "level", TACHE),
              NaDropped("tasks", "selected", {"start_date", "end_date"}),
              Iterated("tasks") >>
      [] rule = "orphan_tasks" ->
           << Masked("tasks", "df", "level", TACHE),
              Iterated("tasks") >>
      [] rule = "overlapping_tasks" ->
           << Masked("selected", "df", "level", TACHE),
              NaDropped("tasks", "selected", {"phase", "start_date", "end_date"}),
              ForUnique("tasks", "phase",
                  << MaskedEach("selected", "tasks", "phase"),
                     Sorted("phase_tasks", "selected", "start_date", order),
                     Iterated("phase_tasks") >>) >>
      [] rule = "missing_values" ->
           << Masked("tasks", "df", "level", TACHE),
              ColumnRead("tasks", "value") >>
      [] rule = "future_progress" ->
           << Masked("selected", "df", "level", TACHE),
              NaDropped("tasks", "selected", {"start_date", "progress"}),
              Iterated("tasks") >>

\* validators.py lines 46-48, 69-72, 89-91, 107-109, 123-125, 146-153, 168-169
\* and 185-187: the statements of each rule
RuleStatements(rule, order) ==
    CASE rule = "missing_dates" ->
           << Masked("tasks", "df", "level", TACHE),
              Iterated("tasks") >>
      [] rule = "duration_coherence" ->
           << Masked("selected", "df", "level", TACHE),
              Copied("copied", "selected"),
              NaDropped("tasks", "copied", {"start_date", "end_date", "duration"}),
              Iterated("tasks") >>
      [] rule = "progress_range" ->
           << Masked("selected", "df", "level", TACHE),
              NaDropped("tasks", "selected", {"progress"}),
              Iterated("tasks") >>
      [] rule = "date_order" ->
           << Masked("selected", "df", "level", TACHE),
              NaDropped("tasks", "selected", {"start_date", "end_date"}),
              Iterated("tasks") >>
      [] rule = "orphan_tasks" ->
           << Masked("tasks", "df", "level", TACHE),
              Iterated("tasks") >>
      [] rule = "overlapping_tasks" ->
           << Masked("selected", "df", "level", TACHE),
              NaDropped("tasks", "selected", {"phase", "start_date", "end_date"}),
              ForUnique("tasks", "phase",
                  << MaskedEach("selected", "tasks", "phase"),
                     Sorted("phase_tasks", "selected", "start_date", order),
                     Iterated("phase_tasks") >>) >>
      [] rule = "missing_values" ->
           << Masked("tasks", "df", "level", TACHE),
              ColumnRead("tasks", "value") >>
      [] rule = "future_progress" ->
           << Masked("selected", "df", "level", TACHE),
              NaDropped("tasks", "selected", {"start_date", "progress"}),
              Iterated("tasks") >>

\* validators.py lines 36-38: the rules in turn on the same objects
RECURSIVE RunRuleStatements(_, _, _)
RunRuleStatements(rs, order, run) ==
    IF rs = <<>> \/ run.raised THEN run
    ELSE RunRuleStatements(Tail(rs), order, Run(RuleStatements(Head(rs), order), run))

\* analytics.py lines 57-70: the statements of _kpi_by_bloc
KpiByBlocStatements ==
    << Masked("tasks", "df", "level", TACHE),
       ForUnique("tasks", "bloc",
           << MaskedEach("bloc_tasks", "tasks", "bloc"),
              Masked("selected_in_bloc", "bloc_tasks", "progress", Some(100)) >>) >>

\* analytics.py lines 21-51: the statements of calculate_kpis; the reads under
\* "if len(...) > 0" name columns that the dropna before them has named
KpisStatements ==
    << Masked("tasks", "df", "level", TACHE),
       Masked("selected", "tasks", "progress", Some(100)),
       NaDropped("tasks_with_duration", "tasks", {"duration"}),
       ColumnRead("tasks_with_duration", "duration"),
       NaDropped("tasks_with_value", "tasks", {"value"}),
       ColumnRead("tasks_with_value", "value"),
       NaDropped("tasks_with_dates", "tasks", {"start_date", "end_date"}),
       ColumnRead("tasks_with_dates", "start_date"),
       ColumnRead("tasks_with_dates", "end_date") >>
    \o KpiByBlocStatements

\* analytics.py lines 81-90: the statements of calculate_earned_value
EarnedValueStatements ==
    << Masked("selected", "df", "level", TACHE),
       NaDropped("tasks", "selected", {"value", "progress"}),
       ColumnRead("tasks", "value"),
       ColumnRead("tasks", "progress") >>

\* a call starts with its argument as the only object
Called(d) == [raised |-> FALSE, objects |-> [n \in {"df"} |-> Frame(d)]]

\* what a call leaves in its argument df
LeftInArgument(run) == Table(run.objects["df"])

-----------------------------------------------------------------------------
(* Calls of the validator and of the analytics on one table, in any order *)

MaxFrameRows == 2

\* rows of the tables of the calls: the sound task, the task with nothing
\* filled in, the task with every defect and the Block row of ValidateRows;
\* two sound tasks overlap and have equal starts
FrameRows ==
    {r \in ValidateRows :
        r.level = BLOC \/ (r.level = TACHE /\ r.task_name \in {Some("T1"), Some("T2"), Some("T3")})}

FrameInputs ==
    {WithoutCols(rs, absent) :
        rs \in UNION {[1..n -> FrameRows] : n \in 1..MaxFrameRows},
        absent \in {{}, {"progress"}}}

InitFrame ==
    /\ DetectorIdle
    /\ AnalyticsIdle
    /\ CleanerIdle
    /\ AppIdle
    /\ df \in FrameInputs
    /\ today = 0
    /\ sort_order = <<>>
    /\ result = NoResult
    /\ summary = NoSummary
    /\ pc = "ready"

FramePcs == {"ready", "validate", "rule", "kpis", "earned_value"}

\* validator.validate(df), returning or raising
FrameValidate ==
    /\ pc \in FramePcs
    /\ \E now \in ValidateDays(df, today), order \in ValidateOrders(df, sort_order) :
        /\ result' = Validate(df, order, now)
        /\ today' = now
        /\ sort_order' = order
        /\ frames' = RunRuleStatements(Rules, order, Called(df))
    /\ df' = LeftInArgument(frames')
    /\ pc' = "validate"
    /\ UNCHANGED summary
    /\ UNCHANGED detVars
    /\ UNCHANGED <<kpis, ev_metrics, cleanVars>>
    /\ UNCHANGED appVars

\* one rule called alone; the day is read by the last rule only (line 184,
\* before line 185 can raise) and the rows are sorted by the overlap rule only
\* (line 149): a call that reads no day or sorts nothing leaves the day or the
\* order of before
FrameRule ==
    /\ pc \in FramePcs
    /\ \E k \in 1..Len(Rules) :
        \E now \in IF Rules[k] = "future_progress" THEN Days ELSE {today},
           order \in IF Rules[k] = "overlapping_tasks" /\ Sorts(df)
                     THEN SortOrders(df)
                     ELSE {sort_order} :
            /\ result' = ApplyRule(Rules[k], df, order, now)
            /\ today' = now
            /\ sort_order' = order
            /\ frames' = Run(RuleStatements(Rules[k], order), Called(df))
    /\ df' = LeftInArgument(frames')
    /\ pc' = "rule"
    /\ UNCHANGED summary
    /\ UNCHANGED detVars
    /\ UNCHANGED <<kpis, ev_metrics, cleanVars>>
    /\ UNCHANGED appVars

\* analytics.calculate_kpis(df)
FrameKpis ==
    /\ pc \in FramePcs
    /\ kpis' = CalculateKpis(df)
    /\ frames' = Run(KpisStatements, Called(df))
    /\ df' = LeftInArgument(frames')
    /\ pc' = "kpis"
    /\ UNCHANGED <<today, sort_order, result, summary, ev_metrics>>
    /\ UNCHANGED detVars
    /\ UNCHANGED cleanVars
    /\ UNCHANGED appVars

\* analytics.calculate_earned_value(df)
FrameEarnedValue ==
    /\ pc \in FramePcs
    /\ ev_metrics' = CalculateEarnedValue(df)
    /\ frames' = Run(EarnedValueStatements, Called(df))
    /\ df' = LeftInArgument(frames')
    /\ pc' = "earned_value"
    /\ UNCHANGED <<today, sort_order, result, summary, kpis>>
    /\ UNCHANGED detVars
    /\ UNCHANGED cleanVars
    /\ UNCHANGED appVars

NextFrame ==
    \/ FrameValidate
    \/ FrameRule
    \/ FrameKpis
    \/ FrameEarnedValue

SpecFrame == InitFrame /\ [][NextFrame]_vars

-----------------------------------------------------------------------------
(* validate() called twice on one table *)

\* validator.validate(df) a second time on the same table.  The sorts are
\* functions of the table, so they give the order of the first run again;
\* line 184 reads the clock again.
ValidateAgain ==
    /\ pc = "validated"
    /\ \E now \in Days :
        /\ ~Validate(df, sort_order, now).raised
        /\ result' = Validate(df, sort_order, now)
        /\ today' = now
    /\ pc' = "validated again"
    /\ UNCHANGED <<df, sort_order, summary>>
    /\ UNCHANGED detVars
    /\ UNCHANGED <<anaVars, cleanVars>>
    /\ UNCHANGED appVars

NextTwoRuns ==
    \/ ValidateReturns
    \/ ValidateRaises
    \/ ValidateAgain

SpecTwoRuns == InitFrame /\ [][NextTwoRuns]_vars

MaxDateOrderRows == 2

\* rows for the date-order rule: tasks with start and end in {1, 2}, each
\* possibly missing, and a Block row and a Phase row that end before they start
DateOrderRows ==
    { Row(TACHE, Some("B"), Null, Null, st, en, Null, Null, Null) :
        st \in {Null, Some(1), Some(2)}, en \in {Null, Some(1), Some(2)} }
    \cup
    { Row(lv, Some("B"), Null, Null, Some(2), Some(1), Null, Null, Null) :
        lv \in {BLOC, PHASE} }

DateOrderInputs ==
    {WithoutCols(Named(rs), {}) :
        rs \in UNION {[1..n -> DateOrderRows] : n \in 0..MaxDateOrderRows}}

InitDateOrder ==
    /\ DetectorIdle
    /\ AnalyticsIdle
    /\ CleanerIdle
    /\ AppIdle
    /\ df \in DateOrderInputs
    /\ today = 0
    /\ sort_order = <<>>
    /\ result = NoResult
    /\ summary = NoSummary
    /\ pc = "ready"

\* validator._check_date_order(df)
CallDateOrder ==
    /\ pc = "ready"
    /\ result' = CheckDateOrder(df)
    /\ pc' = "done"
    /\ UNCHANGED <<df, today, sort_order, summary>>
    /\ UNCHANGED detVars
    /\ UNCHANGED <<anaVars, cleanVars>>
    /\ UNCHANGED appVars

SpecDateOrder == InitDateOrder /\ [][CallDateOrder]_vars

-----------------------------------------------------------------------------
(* _clean_data as a state machine *)

MaxCleanRows == 2

StructuredRow(start, end, duration, progress, value) ==
    [level |-> TACHE, bloc |-> Null, phase |-> Null, task |-> Some("T"),
     start |-> start, end |-> end, duration |-> duration,
     progress |-> progress, value |-> value]

\* rows given to _clean_data: start missing, a date, unreadable or a number
\* (45292 is the serial number Excel gives 2024-01-01), end missing or a date,
\* duration missing or stated (and unlike end - start), progress and value as
\* numbers, and three rows with progress and value in other shapes, a date
\* as value among them
CleanRows ==
    { StructuredRow(st, en, du, Raw("num", 50), Raw("num", 100)) :
        st \in {Null, Raw("date", 1), Raw("text", 0), Raw("num", 45292)},
        en \in {Null, Raw("date", 4)},
        du \in {Null, Some(7)} }
    \cup
    { StructuredRow(Raw("date", 1), Raw("date", 4), Null, Raw("pct", 50), Raw("pct", 100)),
      StructuredRow(Raw("date", 1), Raw("date", 4), Null, Raw("text", 0), Null),
      StructuredRow(Raw("date", 1), Raw("num", 45295), Null, Raw("date", 1), Raw("date", 5)) }

\* a mapped table without the columns of absent
WithoutRawCols(rs, absent) ==
    [absent |-> absent,
     rows |-> [i \in 1..Len(rs) |->
                 [c \in DOMAIN rs[i] |-> IF c \in absent THEN Null ELSE rs[i][c]]]]

CleanInputs ==
    {WithoutRawCols(rs, absent) :
        rs \in UNION {[1..n -> CleanRows] : n \in 1..MaxCleanRows},
        absent \in SUBSET RawOptionalCols}

InitClean ==
    /\ DetectorIdle
    /\ ValidatorIdle
    /\ AnalyticsIdle
    /\ AppIdle
    /\ df_structured \in CleanInputs
    /\ df_clean = NoClean
    /\ pc = "ready"

\* self._clean_data(df_structured) returns
CleanReturns ==
    /\ pc = "ready"
    /\ \E among_dates \in NumbersAmongDates :
        /\ ~CleanData(df_structured, among_dates).raised
        /\ df_clean' = CleanData(df_structured, among_dates)
    /\ pc' = "cleaned"
    /\ UNCHANGED df_structured
    /\ UNCHANGED detVars
    /\ UNCHANGED valVars
    /\ UNCHANGED anaVars
    /\ UNCHANGED appVars

\* self._clean_data(df_structured) is left by the KeyError of line 120
CleanRaises ==
    /\ pc = "ready"
    /\ \E among_dates \in NumbersAmongDates :
        /\ CleanData(df_structured, among_dates).raised
        /\ df_clean' = CleanData(df_structured, among_dates)
    /\ pc' = "raised"
    /\ UNCHANGED df_structured
    /\ UNCHANGED detVars
    /\ UNCHANGED valVars
    /\ UNCHANGED anaVars
    /\ UNCHANGED appVars

NextClean ==
    \/ CleanReturns
    \/ CleanRaises

SpecClean == InitClean /\ [][NextClean]_vars

-----------------------------------------------------------------------------
(* app.py: one action per event, each a whole run of the script *)

FileRow(task, start, end, duration, progress, value) ==
    [level |-> Null, bloc |-> Null, phase |-> Null, task |-> Some(task),
     start |-> start, end |-> end, duration |-> duration,
     progress |-> progress, value |-> value]

\* The mapped tables of the files a user uploads: a planning with a Block row
\* and a task that starts on day 5; a planning of two
\* other tasks, one with a number for its start; a planning
\* without progress column; a planning with a blank task text; an empty sheet.
Files ==
    { [absent |-> {},
       rows |-> << FileRow(<<"A">>, Null, Null, Null, Null, Null),
                   FileRow(<<"a">>, Raw("date", 5), Raw("date", 9), Null,
                           Raw("pct", 50), Raw("num", 100)) >>],
      [absent |-> {},
       rows |-> << FileRow(<<"b">>, Raw("date", 1), Raw("date", 4), Some(7),
                           Raw("num", 100), Null),
                   FileRow(<<"c">>, Raw("num", 45292), Raw("date", 4), Null,
                           Raw("num", 0), Null) >>],
      WithoutRawCols(<< FileRow(<<"a">>, Raw("date", 1), Raw("date", 4), Some(3),
                                Null, Raw("num", 100)) >>, {"progress"}),
      [absent |-> {},
       rows |-> << FileRow(<<" ">>, Null, Null, Null, Null, Null) >>],
      [absent |-> {}, rows |-> <<>>] }

InitApp ==
    /\ DetectorIdle
    /\ ValidatorIdle
    /\ AnalyticsIdle
    /\ CleanerIdle
    /\ AppIdle
    /\ pc = "app"

\* the days the readings of a run can give: the clock does not go back, and
\* a run without the HTML button reads it at line 184 only
Clocks(click) ==
    {c \in {Clock(validate, title, generation) :
               validate \in Days, title \in Days, generation \in Days} :
        /\ c.validate <= c.title
        /\ c.title <= c.generation
        /\ click # "html" => c.generation = c.validate}

\* the outcomes of a number among dates that change what a run reads from the
\* file: both where a date column of the file has a number among dates
FileBuilds(file) ==
    IF /\ ~IsNa(file)
       /\ \E col \in {"start", "end"} :
              /\ HoldsKind(Column(Val(file), col), "date")
              /\ HoldsKind(Column(Val(file), col), "num")
    THEN NumbersAmongDates
    ELSE {"NaT"}

\* A run of the script, lines 64-408, with the widgets demo, file and the
\* button click: the loading step, then the display of what it left, with
\* the kpis k of line 143, which depend on the table only, and the alerts v
\* of line 140, which depend on the table, the sort order and the day
Rerun(demo, file, click) ==
    /\ pc = "app"
    /\ \E among_dates \in FileBuilds(file) :
        \E loaded \in {Loaded(session, demo, file, among_dates)},
           failed \in {LoadFailed(demo, file, among_dates)} :
            \E k \in {RunKpis(loaded)} :
             \E order \in RunOrders(loaded, sort_order), validate \in Days :
              \E v \in {RunValidate(loaded, order, validate)} :
               \E excel_raises \in IF click = "excel" THEN BOOLEAN ELSE {FALSE},
                  clock \in {c \in Clocks(click) : c.validate = validate} :
                \E run \in {Display(session, loaded, failed, click,
                                     excel_raises, clock, v, k)} :
                    /\ session' = run.session
                    /\ view' = run.view
                    /\ today' = RunDay(loaded, clock.validate, today)
                    /\ sort_order' = order
    /\ demo_mode' = demo
    /\ uploaded_file' = file
    /\ UNCHANGED <<df, result, summary, pc>>
    /\ UNCHANGED detVars
    /\ UNCHANGED <<anaVars, cleanVars>>

\* the user ticks "Mode démo": the uploader is no longer on the page
LoadDemo ==
    /\ ~demo_mode
    /\ Rerun(TRUE, Null, "none")

\* the user unticks "Mode démo"
LeaveDemo ==
    /\ demo_mode
    /\ Rerun(FALSE, Null, "none")

\* the files whose upload leaves a table: parse_excel returns and the table
\* has rows (lines 122-124), whatever the build reads a number among dates as
ReadableFiles ==
    {f \in Files : \A among_dates \in NumbersAmongDates :
                      ~LoadFailed(FALSE, Some(f), among_dates)}

\* the user uploads a file that parse_excel reads
UploadFile ==
    /\ ~demo_mode
    /\ \E f \in ReadableFiles : Rerun(FALSE, Some(f), "none")
    /\ ~view'.load_failed

\* the user uploads a file that parse_excel fails on, or an empty one
FailedUpload ==
    /\ ~demo_mode
    /\ \E f \in Files \ ReadableFiles : Rerun(FALSE, Some(f), "none")
    /\ view'.load_failed

\* the user removes the file from the uploader
RemoveFile ==
    /\ ~demo_mode
    /\ ~IsNa(uploaded_file)
    /\ Rerun(FALSE, Null, "none")

\* the user presses "Générer exports Excel"
GenerateExcel ==
    /\ view.displayed
    /\ Rerun(demo_mode, uploaded_file, "excel")

\* the user presses "Générer rapport HTML"
GenerateHtml ==
    /\ view.displayed
    /\ Rerun(demo_mode, uploaded_file, "html")

\* the user changes a filter of the page or presses a download button: a run
\* with the same widgets and no button
OtherRerun ==
    Rerun(demo_mode, uploaded_file, "none")

NextApp ==
    \/ LoadDemo
    \/ LeaveDemo
    \/ UploadFile
    \/ FailedUpload
    \/ RemoveFile
    \/ GenerateExcel
    \/ GenerateHtml
    \/ OtherRerun

SpecApp == InitApp /\ [][NextApp]_vars

-----------------------------------------------------------------------------
(* Properties of the detector *)

\* the rows the loop has already gone through
Processed == 1..(idx - 1)

\* position of the nearest row before i with the given level, 0 if none
LastBefore(i, lvl) ==
    LET S == {j \in 1..(i - 1) : res[j].level = lvl}
    IN IF S = {} THEN 0 ELSE CHOOSE j \in S : \A k \in S : k <= j

\* the label of row j, null for j = 0
LabelAt(j) == IF j = 0 THEN Null ELSE Some(Strip(Val(res[j].task)))

\* C1 as stated: every Task row carries as bloc the label of the nearest
\* preceding Block row and as phase the label of the nearest preceding Phase
\* row, or null when no such row precedes it.
C1_NearestPreceding ==
    \A i \in Processed :
        res[i].level = TACHE =>
            /\ res[i].bloc = LabelAt(LastBefore(i, BLOC))
            /\ res[i].phase = LabelAt(LastBefore(i, PHASE))

\* C1 amended: a Task row with a text carries as bloc the label of the nearest
\* preceding Block row (null if none) and as phase the label of the nearest
\* preceding Phase row when no Block row lies between that Phase row and the
\* task, null otherwise; a row without text keeps null bloc and phase.
C1_NearestWithinBloc ==
    \A i \in Processed :
        res[i].level = TACHE =>
            IF IsNa(res[i].task)
            THEN res[i].bloc = Null /\ res[i].phase = Null
            ELSE /\ res[i].bloc = LabelAt(LastBefore(i, BLOC))
                 /\ res[i].phase =
                        IF LastBefore(i, PHASE) > LastBefore(i, BLOC)
                        THEN LabelAt(LastBefore(i, PHASE))
                        ELSE Null

\* a returned table where a Task row follows a Block row that follows a Phase row
C1_Witness ==
    /\ pc = "returned"
    /\ \E i \in 1..Len(res) :
        /\ res[i].level = TACHE
        /\ ~IsNa(res[i].task)
        /\ LastBefore(i, PHASE) > 0
        /\ LastBefore(i, BLOC) > LastBefore(i, PHASE)
        /\ ~IsNa(res[i].bloc)
        /\ IsNa(res[i].phase)

\* text missing, empty, or empty once stripped
EmptyText(row) == IsNa(row.task) \/ Strip(Val(row.task)) = <<>>

\* C2: on a row whose text is null or empty (also empty after stripping) the
\* detector does not raise, and it leaves the row at level Task with null bloc
\* and null phase.
C2_EmptyTextIsTask ==
    \A i \in 1..Len(res) :
        EmptyText(rows[i]) =>
            /\ ~(pc = "raised" /\ idx = i)
            /\ i \in Processed =>
                 /\ res[i].level = TACHE
                 /\ res[i].bloc = Null
                 /\ res[i].phase = Null

\* C4: the detector run on its own output returns, with the same level, bloc
\* and phase on every row as the first run.
C4_Idempotent ==
    pc = "rerun" =>
        /\ ~res2.raised
        /\ Len(res2.df) = Len(res)
        /\ \A i \in 1..Len(res) :
            /\ res2.df[i].level = res[i].level
            /\ res2.df[i].bloc = res[i].bloc
            /\ res2.df[i].phase = res[i].phase

\* a second run over a table holding a Block, a Phase and an attributed Task
C4_Witness ==
    /\ pc = "rerun"
    /\ \E i, j, k \in 1..Len(res) :
        /\ res[i].level = BLOC
        /\ res[j].level = PHASE /\ ~IsNa(res[j].bloc)
        /\ res[k].level = TACHE /\ ~IsNa(res[k].phase)

\* C5: once the columns are initialised every row's level is Block, Phase or
\* Task, and the loop writes the level of a row at most once.
C5_LevelSetOnce ==
    pc # "call" =>
        \A i \in 1..Len(res) :
            /\ res[i].level \in Levels
            /\ nwrites[i] <= 1

\* a returned table with the three levels, each written by the loop
C5_Witness ==
    /\ pc = "returned"
    /\ {res[i].level : i \in 1..Len(res)} = Levels
    /\ \A i \in 1..Len(res) : nwrites[i] = 1

\* C6: what the pass has written for the rows 1..k is what the detector
\* returns for the table cut after row k: rows after k have no influence.
C6_NoLookahead ==
    \A k \in Processed :
        LET p == DetectStructure(SubSeq(rows, 1, k))
        IN /\ ~p.raised
           /\ \A j \in 1..k :
                /\ p.df[j].level = res[j].level
                /\ p.df[j].bloc = res[j].bloc
                /\ p.df[j].phase = res[j].phase

\* a pass that classified a Task row and then met a Block row
C6_Witness ==
    /\ pc \in {"returned", "raised"}
    /\ Len(res) >= 2
    /\ 2 \in Processed
    /\ res[1].level = TACHE /\ ~IsNa(res[1].task) /\ IsNa(res[1].bloc)
    /\ res[2].level = BLOC

-----------------------------------------------------------------------------
(* Properties of the validator *)

\* C3: on every table the parser can produce, whichever optional columns it
\* lacks, validate() returns an alert list: no rule raises.
C3_ValidateNeverRaises ==
    pc \in {"validated", "raised"} => ~result.raised

\* the rule an alert comes from, by its message, as its rank in the fixed order
RuleRank(a) ==
    CASE a.message.text \in {"Date debut manquante", "Date fin manquante"} -> 1
      [] a.message.text = "Incoherence duree" -> 2
      [] a.message.text = "Avancement invalide" -> 3
      [] a.message.text = "Date fin avant date debut" -> 4
      [] a.message.text \in {"Tache sans BLOC", "Tache sans Phase"} -> 5
      [] a.message.text = "Chevauchement" -> 6
      [] a.message.text = "taches sans valeur financiere" -> 7
      [] a.message.text = "Tache future avec avancement" -> 8

\* C7: the list validate() returns is the outputs of the eight rules, each as
\* the rule gives it alone, concatenated in the order missing dates, duration
\* coherence, progress range, date order, orphan tasks, overlapping tasks,
\* missing financial value, future progress; so an alert of an earlier rule
\* precedes every alert of a later rule.
C7_RuleOrder ==
    pc = "validated" =>
        /\ result.alerts =
              CheckMissingDates(df).alerts
              \o CheckDurationCoherence(df).alerts
              \o CheckProgressRange(df).alerts
              \o CheckDateOrder(df).alerts
              \o CheckOrphanTasks(df).alerts
              \o CheckOverlappingTasks(df, sort_order).alerts
              \o CheckMissingValues(df).alerts
              \o CheckFutureProgress(df, today).alerts
        /\ \A i, j \in 1..Len(result.alerts) :
              i < j => RuleRank(result.alerts[i]) <= RuleRank(result.alerts[j])

\* a returned list with alerts of all eight rules
C7_Witness ==
    /\ pc = "validated"
    /\ {RuleRank(result.alerts[i]) : i \in 1..Len(result.alerts)} = 1..8

\* the number of alerts of the list with severity sv
CountSeverity(alerts, sv) ==
    Cardinality({i \in 1..Len(alerts) : alerts[i].severity = sv})

RECURSIVE SumOver(_, _)
SumOver(f, S) ==
    IF S = {} THEN 0
    ELSE LET x == CHOOSE x \in S : TRUE IN f[x] + SumOver(f, S \ {x})

\* C8: get_summary gives the number of alerts of each of error, warning and
\* info, and total is the length of the list, whatever the severities in it;
\* total is the sum of the per-severity counts.
C8_SummaryTotal ==
    pc = "summarised" =>
        /\ \A sv \in {"error", "warning", "info"} :
              summary[sv] = CountSeverity(result.alerts, sv)
        /\ summary["total"] = Len(result.alerts)
        /\ summary["total"] =
              SumOver([sv \in {result.alerts[i].severity : i \in 1..Len(result.alerts)}
                          |-> CountSeverity(result.alerts, sv)],
                      {result.alerts[i].severity : i \in 1..Len(result.alerts)})

\* the rows the overlap rule considers: Task rows with phase and both dates
Eligible ==
    {i \in 1..Len(df.rows) :
        /\ df.rows[i].level = TACHE
        /\ ~IsNa(df.rows[i].phase)
        /\ ~IsNa(df.rows[i].start_date)
        /\ ~IsNa(df.rows[i].end_date)}

StartOf(i) == Val(df.rows[i].start_date)
EndOf(i) == Val(df.rows[i].end_date)

\* q comes right after p when the eligible rows of p's phase are sorted by start
AdjacentByStart(p, q) ==
    /\ p \in Eligible /\ q \in Eligible /\ p # q
    /\ df.rows[p].phase = df.rows[q].phase
    /\ StartOf(p) <= StartOf(q)
    /\ ~\E r \in Eligible \ {p, q} :
          /\ df.rows[r].phase = df.rows[p].phase
          /\ StartOf(p) < StartOf(r) /\ StartOf(r) < StartOf(q)

\* the overlap alert for prev = p, next = q
OverlapAlert(p, q) ==
    Alert("info", "Chevauchement", Some(p - 1),
          <<df.rows[p].task_name, df.rows[q].task_name>>, <<>>)

\* C9: every alert of the overlap rule is one info alert naming a pair (prev,
\* next) of Task rows of one phase with phase and both dates present, adjacent
\* when the phase is sorted by start date, with prev.end_date > next.start_date;
\* a phase of n such rows gives at most n - 1 alerts, none twice; and when the
\* start dates of a phase differ, each adjacent pair with prev.end_date >
\* next.start_date gets its alert.
C9_AdjacentOverlaps ==
    pc = "done" =>
        /\ ~result.raised
        /\ \A k \in 1..Len(result.alerts) :
              \E p, q \in Eligible :
                  /\ result.alerts[k] = OverlapAlert(p, q)
                  /\ AdjacentByStart(p, q)
                  /\ EndOf(p) > StartOf(q)
        /\ \A k, l \in 1..Len(result.alerts) :
              k # l => result.alerts[k] # result.alerts[l]
        /\ \A ph \in {df.rows[i].phase : i \in Eligible} :
              Cardinality({k \in 1..Len(result.alerts) :
                             \E p \in Eligible :
                                /\ df.rows[p].phase = ph
                                /\ result.alerts[k].row = Some(p - 1)})
                 <= Cardinality({i \in Eligible : df.rows[i].phase = ph}) - 1
        /\ \A p, q \in Eligible :
              (/\ AdjacentByStart(p, q)
               /\ EndOf(p) > StartOf(q)
               /\ \A r, t \in Eligible :
                     (r # t /\ df.rows[r].phase = df.rows[p].phase
                            /\ df.rows[t].phase = df.rows[p].phase)
                        => StartOf(r) # StartOf(t))
              => \E k \in 1..Len(result.alerts) : result.alerts[k] = OverlapAlert(p, q)

\* three tasks of one phase, the first overlapping the second and the third,
\* the second ending before the third starts: one alert, for the first pair
C9_Witness ==
    /\ pc = "done"
    /\ Len(result.alerts) = 1
    /\ \E p, q, r \in Eligible :
        /\ df.rows[p].phase = df.rows[q].phase
        /\ df.rows[q].phase = df.rows[r].phase
        /\ StartOf(p) < StartOf(q) /\ StartOf(q) < StartOf(r)
        /\ EndOf(p) > StartOf(r)
        /\ EndOf(q) <= StartOf(r)
        /\ result.alerts[1] = OverlapAlert(p, q)

\* the duration rule applies to row i: a Task row with start, end and duration
HasDuration(i) ==
    /\ df.rows[i].level = TACHE
    /\ ~IsNa(df.rows[i].start_date)
    /\ ~IsNa(df.rows[i].end_date)
    /\ ~IsNa(df.rows[i].duration)

\* (end - start) in days minus the stated duration
DurationGap(i) ==
    Val(df.rows[i].end_date) - Val(df.rows[i].start_date) - Val(df.rows[i].duration)

\* C10: the duration rule gives a row one warning exactly when the row is a
\* Task row with start, end and duration present whose (end - start) in days
\* differs from the stated duration by more than 1, in either direction.
C10_DurationThreshold ==
    pc = "done" =>
        /\ ~result.raised
        /\ \A i \in 1..Len(df.rows) :
              Cardinality({k \in 1..Len(result.alerts) :
                             result.alerts[k].row = Some(i - 1)})
                 = IF HasDuration(i) /\ (DurationGap(i) > 1 \/ DurationGap(i) < -1)
                   THEN 1 ELSE 0
        /\ \A k \in 1..Len(result.alerts) :
              /\ result.alerts[k].severity = "warning"
              /\ result.alerts[k].message.text = "Incoherence duree"
              /\ result.alerts[k].row # Null

\* a row off by exactly 1 without alert beside a row off by exactly 2 with one
C10_Witness ==
    /\ pc = "done"
    /\ Len(result.alerts) = 1
    /\ \E i, j \in 1..Len(df.rows) :
        /\ HasDuration(i) /\ DurationGap(i) \in {1, -1}
        /\ HasDuration(j) /\ DurationGap(j) \in {2, -2}
        /\ result.alerts[1].row = Some(j - 1)

\* the Task rows without value
TasksWithoutValue ==
    {i \in 1..Len(df.rows) : df.rows[i].level = TACHE /\ IsNa(df.rows[i].value)}

\* C11: with n the number of Task rows whose value is null, the missing-value
\* rule gives exactly one info alert, with row null and n in its message, when
\* n > 0, and no alert when n = 0; Block and Phase rows are not counted.
C11_MissingValueCount ==
    pc = "done" =>
        /\ ~result.raised
        /\ Len(result.alerts) = (IF Cardinality(TasksWithoutValue) > 0 THEN 1 ELSE 0)
        /\ \A k \in 1..Len(result.alerts) :
              /\ result.alerts[k].severity = "info"
              /\ result.alerts[k].row = Null
              /\ result.alerts[k].message.text = "taches sans valeur financiere"
              /\ result.alerts[k].message.nums = <<Cardinality(TasksWithoutValue)>>

\* two Task rows without value beside a Block or Phase row without value:
\* one alert, counting 2
C11_Witness ==
    /\ pc = "done"
    /\ Cardinality(TasksWithoutValue) = 2
    /\ \E i \in 1..Len(df.rows) :
          df.rows[i].level \in {BLOC, PHASE} /\ IsNa(df.rows[i].value)
    /\ Len(result.alerts) = 1
    /\ result.alerts[1].message.nums = <<2>>

\* the alerts of the last call that carry the index label of row i
AlertsOn(i) == {k \in 1..Len(result.alerts) : result.alerts[k].row = Some(i - 1)}

\* row i is a Task row whose progress is present and outside [0, 100]
ProgressOutOfRange(i) ==
    /\ df.rows[i].level = TACHE
    /\ ~IsNa(df.rows[i].progress)
    /\ (Val(df.rows[i].progress) < 0 \/ Val(df.rows[i].progress) > 100)

\* C12: the progress rule gives a row one error alert exactly when the row is a
\* Task row whose progress is present and below 0 or above 100: 0 and 100 give
\* none, -1 and 101 give one, and a null progress or a Block or Phase row
\* gives none.
C12_ProgressBounds ==
    pc = "done" =>
        /\ ~result.raised
        /\ \A i \in 1..Len(df.rows) :
              Cardinality(AlertsOn(i)) = (IF ProgressOutOfRange(i) THEN 1 ELSE 0)
        /\ \A k \in 1..Len(result.alerts) :
              /\ result.alerts[k].severity = "error"
              /\ result.alerts[k].message.text = "Avancement invalide"
              /\ \E i \in 1..Len(df.rows) : k \in AlertsOn(i)
        /\ \A i \in 1..Len(df.rows) :
              /\ (df.rows[i].level = TACHE /\ df.rows[i].progress \in {Some(0), Some(100)})
                    => AlertsOn(i) = {}
              /\ (df.rows[i].level = TACHE /\ df.rows[i].progress \in {Some(-1), Some(101)})
                    => AlertsOn(i) # {}

\* a task at 100 without alert beside a task at 101 with its alert
C12_Witness ==
    /\ pc = "done"
    /\ Len(result.alerts) = 1
    /\ \E i, j \in 1..Len(df.rows) :
        /\ df.rows[i].level = TACHE /\ df.rows[i].progress = Some(100)
        /\ df.rows[j].level = TACHE /\ df.rows[j].progress = Some(101)
        /\ AlertsOn(i) = {} /\ AlertsOn(j) = {1}

\* row i is a Task row with both dates
HasBothDates(i) ==
    /\ df.rows[i].level = TACHE
    /\ ~IsNa(df.rows[i].start_date)
    /\ ~IsNa(df.rows[i].end_date)

\* C17: the date-order rule gives a row one error alert exactly when the row
\* is a Task row with both dates and start_date >= end_date, equal dates
\* included; so a Task row with both dates and no such alert has start_date <
\* end_date.
C17_DateOrder ==
    pc = "done" =>
        /\ ~result.raised
        /\ \A i \in 1..Len(df.rows) :
              Cardinality(AlertsOn(i)) =
                 (IF HasBothDates(i)
                     /\ Val(df.rows[i].start_date) >= Val(df.rows[i].end_date)
                  THEN 1 ELSE 0)
        /\ \A k \in 1..Len(result.alerts) :
              /\ result.alerts[k].severity = "error"
              /\ result.alerts[k].message.text = "Date fin avant date debut"
              /\ \E i \in 1..Len(df.rows) : k \in AlertsOn(i)
        /\ \A i \in 1..Len(df.rows) :
              (HasBothDates(i) /\ AlertsOn(i) = {})
                 => Val(df.rows[i].start_date) < Val(df.rows[i].end_date)

\* a task that starts and ends on one day, with its alert, beside a task that
\* ends after it starts, without
C17_Witness ==
    /\ pc = "done"
    /\ Len(result.alerts) = 1
    /\ \E i, j \in 1..Len(df.rows) :
        /\ HasBothDates(i) /\ df.rows[i].start_date = df.rows[i].end_date
        /\ HasBothDates(j) /\ Val(df.rows[j].start_date) < Val(df.rows[j].end_date)
        /\ AlertsOn(i) = {1} /\ AlertsOn(j) = {}

\* C21: every alert validate() returns has severity error, warning or info and
\* a row that is null or the index of a Task row of the validated table; row
\* is null only on the missing-value alert (and always there), and no alert
\* carries the index of a Block or Phase row.
C21_AlertsPointAtTasks ==
    pc = "validated" =>
        \A k \in 1..Len(result.alerts) :
            /\ result.alerts[k].severity \in {"error", "warning", "info"}
            /\ \/ result.alerts[k].row = Null
               \/ \E i \in 1..Len(df.rows) :
                     /\ result.alerts[k].row = Some(i - 1)
                     /\ df.rows[i].level = TACHE
            /\ result.alerts[k].row = Null
                  <=> result.alerts[k].message.text = "taches sans valeur financiere"
            /\ \A i \in 1..Len(df.rows) :
                  df.rows[i].level \in {BLOC, PHASE}
                     => result.alerts[k].row # Some(i - 1)

\* a table with a Block row, a Phase row and a Task row with nothing filled
\* in: alerts on the Task row and the alert without row
C21_Witness ==
    /\ pc = "validated"
    /\ \E i, j, m \in 1..Len(df.rows) :
        /\ df.rows[i].level = BLOC
        /\ df.rows[j].level = PHASE
        /\ df.rows[m].level = TACHE
        /\ \E k \in 1..Len(result.alerts) : result.alerts[k].row = Some(m - 1)
    /\ \E k \in 1..Len(result.alerts) : result.alerts[k].row = Null

-----------------------------------------------------------------------------
(* Properties of the metrics *)

\* the Task rows with value and progress
Valued ==
    {i \in 1..Len(df.rows) :
        /\ df.rows[i].level = TACHE
        /\ ~IsNa(df.rows[i].value)
        /\ ~IsNa(df.rows[i].progress)}

\* the sum of the values of the rows of Valued
PlannedSum == SumOver([i \in Valued |-> Val(df.rows[i].value)], Valued)

\* 100 times the sum of value * progress / 100 over the rows of Valued
EarnedSum100 ==
    SumOver([i \in Valued |-> Val(df.rows[i].value) * Val(df.rows[i].progress)],
            Valued)

\* C13: calculate_earned_value returns no metrics exactly when no Task row has
\* value and progress; otherwise, over those rows, planned_value is the sum of
\* value and, with earned the sum of value * progress / 100 and spi = earned /
\* planned (0 when planned is not positive), status is "En avance" when
\* spi >= 1.0, "Dans les temps" when 0.9 <= spi < 1.0, "En retard" otherwise.
\* The earned_value and the spi returned are float64 numbers; the status is
\* compared here with the one of the exact quotients.
C13_EarnedValue ==
    pc = "done" =>
        /\ ~ev_metrics.raised
        /\ ev_metrics.none <=> Valued = {}
        /\ ~ev_metrics.none =>
            /\ ev_metrics.planned_value = PlannedSum
            /\ ev_metrics.status =
                  IF PlannedSum > 0 /\ EarnedSum100 >= 100 * PlannedSum
                  THEN "En avance"
                  ELSE IF PlannedSum > 0 /\ 10 * EarnedSum100 >= 900 * PlannedSum
                  THEN "Dans les temps"
                  ELSE "En retard"

\* The statements run are those of the call: they raise exactly when the
\* call raises, the frame a rule iterates holds every row its alerts name,
\* and the frames of the metrics have the rows the metrics count.
FramesFollowCalls ==
    /\ pc \in {"validate", "rule"} => frames.raised = result.raised
    /\ pc = "rule" /\ ~result.raised =>
          \A k \in 1..Len(result.alerts) :
              ~IsNa(result.alerts[k].row) =>
                  Val(result.alerts[k].row) \in SeqRange(frames.objects["tasks"].index)
    /\ pc = "kpis" => frames.raised = kpis.raised
    /\ pc = "kpis" /\ ~kpis.raised =>
          /\ kpis.total_tasks = Len(frames.objects["tasks"].rows)
          /\ kpis.completed_tasks = Len(frames.objects["selected"].rows)
    /\ pc = "earned_value" => frames.raised = ev_metrics.raised
    /\ pc = "earned_value" /\ ~ev_metrics.raised =>
          (ev_metrics.none <=> frames.objects["tasks"].rows = <<>>)

\* C14: validate(), each of the eight rules, calculate_kpis() and
\* calculate_earned_value() leave the table they are given as it was: every
\* step of every sequence of these calls keeps every field of every row, and
\* the order of the rows, where what a call leaves in df is what its
\* statements, run on the DataFrame objects, leave in the object df.
C14_DatasetUnchanged == [][df' = df]_vars /\ []FramesFollowCalls

\* after calls of validate, calculate_kpis and calculate_earned_value on a
\* table with a row full of nulls, the last call having built a frame that
\* lacks rows of df: alerts, kpis and metrics are there
C14_Witness ==
    /\ pc \in {"validate", "rule", "kpis", "earned_value"}
    /\ \E i \in 1..Len(df.rows) : IsNa(df.rows[i].progress) /\ IsNa(df.rows[i].start_date)
    /\ Len(result.alerts) > 0
    /\ ~kpis.none
    /\ ~ev_metrics.none
    /\ ~frames.raised
    /\ Len(frames.objects["tasks"].rows) < Len(frames.objects["selected"].rows)
    /\ frames.objects["df"] = Frame(df)

\* C15: a second run of validate() on the same table returns the alert list
\* of the first run, whatever the day of either run, the alerts of the
\* future-progress rule included.
C15_SameAlertsAnyDay ==
    [][(pc = "validated" /\ pc' = "validated again") => result' = result]_vars

-----------------------------------------------------------------------------
(* Properties of _clean_data *)

\* row i of the table has both dates, once lines 114-116 have read them
BothDatesRead(i) ==
    /\ ~IsNa(df_clean.df.rows[i].start_date)
    /\ ~IsNa(df_clean.df.rows[i].end_date)

\* C19: _clean_data returns, without raising, whichever of the optional
\* columns start, end, duration, progress and value the table lacks; it
\* changes duration only on the rows where it is null, setting it to
\* (end - start) in days when both dates are present, and it leaves a stated
\* duration as it is.
C19_DurationFilledNeverRaises ==
    pc \in {"cleaned", "raised"} =>
        /\ ~df_clean.raised
        /\ Len(df_clean.df.rows) = Len(df_structured.rows)
        /\ \A i \in 1..Len(df_structured.rows) :
              df_clean.df.rows[i].duration =
                 IF IsNa(df_structured.rows[i].duration) /\ BothDatesRead(i)
                 THEN Some(DaysFrom(df_clean.df.rows[i].start_date,
                                    df_clean.df.rows[i].end_date))
                 ELSE df_structured.rows[i].duration

-----------------------------------------------------------------------------
(* Further properties of the detector *)

\* C16 as stated: a row classified Block has null bloc and null phase; a row
\* classified Phase has as bloc the current bloc at that row and no phase
\* reference to itself.
C16_HeadersReferenceNothing ==
    \A i \in Processed :
        /\ res[i].level = BLOC => (res[i].bloc = Null /\ res[i].phase = Null)
        /\ res[i].level = PHASE =>
              /\ res[i].bloc = LabelAt(LastBefore(i, BLOC))
              /\ res[i].phase # LabelAt(i)

\* C16 amended: a row classified Block has its own label as bloc and null
\* phase; a row classified Phase has as bloc the current bloc at that row (the
\* label of the nearest preceding Block row, null if none) and its own label
\* as phase.
C16_HeadersCarryOwnLabel ==
    \A i \in Processed :
        /\ res[i].level = BLOC => (res[i].bloc = LabelAt(i) /\ res[i].phase = Null)
        /\ res[i].level = PHASE =>
              /\ res[i].bloc = LabelAt(LastBefore(i, BLOC))
              /\ res[i].phase = LabelAt(i)

\* a returned table with a Phase row, then a Block row, then a Phase row
C16_Witness ==
    /\ pc = "returned"
    /\ \E i, j, k \in 1..Len(res) :
        /\ i < j /\ j < k
        /\ res[i].level = PHASE /\ IsNa(res[i].bloc) /\ ~IsNa(res[i].phase)
        /\ res[j].level = BLOC /\ ~IsNa(res[j].bloc) /\ IsNa(res[j].phase)
        /\ res[k].level = PHASE /\ res[k].bloc = res[j].bloc /\ ~IsNa(res[k].phase)

\* the first character of t is a digit or a dash
DigitOrDashFirst(t) == t # <<>> /\ (t[1] \in DigitChars \/ t[1] = "-")

\* C18: for every row with non-null text the pass decides the level in
\* priority order: Block exactly when the text is all upper-case and the row
\* has no start date, setting current_bloc and resetting current_phase;
\* otherwise Phase exactly when the first character is a digit or the text
\* starts with a dash and the row has no start date, setting current_phase and
\* leaving current_bloc; otherwise Task, changing neither.  So a row with a
\* start date is a Task and upper-case text starting with a digit is a Block.
C18_PriorityOrder ==
    [][(pc = "loop" /\ idx <= Len(res) /\ ~IsNa(res[idx].task)) =>
          /\ pc' = "loop"
          /\ idx' = idx + 1
          /\ IF IsUpper(Strip(Val(res[idx].task))) /\ IsNa(res[idx].start)
             THEN /\ res'[idx].level = BLOC
                  /\ current_bloc' = Some(Strip(Val(res[idx].task)))
                  /\ current_phase' = Null
             ELSE IF DigitOrDashFirst(Strip(Val(res[idx].task))) /\ IsNa(res[idx].start)
             THEN /\ res'[idx].level = PHASE
                  /\ current_phase' = Some(Strip(Val(res[idx].task)))
                  /\ current_bloc' = current_bloc
             ELSE /\ res'[idx].level = TACHE
                  /\ current_bloc' = current_bloc
                  /\ current_phase' = current_phase
      ]_vars

\* C20: at every point of the forward pass, current_phase, when set, is the
\* label of the last Phase row met, and that row comes after the Block row
\* that set current_bloc (or no Block row has been met and current_bloc is
\* unset).  So a Task row with bloc and phase both non-null has the phase of a
\* Phase row that lies after the Block row of its bloc with no Block row in
\* between, and a Task row that follows a Block row with no Phase row in
\* between has null phase.
C20_PhaseInsideBloc ==
    pc # "call" =>
        /\ current_bloc = LabelAt(LastBefore(idx, BLOC))
        /\ ~IsNa(current_phase) =>
              /\ LastBefore(idx, PHASE) > LastBefore(idx, BLOC)
              /\ current_phase = LabelAt(LastBefore(idx, PHASE))
        /\ \A i \in Processed :
              (res[i].level = TACHE /\ ~IsNa(res[i].bloc) /\ ~IsNa(res[i].phase)) =>
                 \E j, k \in 1..(i - 1) :
                    /\ j < k
                    /\ res[j].level = BLOC /\ res[i].bloc = LabelAt(j)
                    /\ res[k].level = PHASE /\ res[i].phase = LabelAt(k)
                    /\ \A m \in (j + 1)..(i - 1) : res[m].level # BLOC
        /\ \A i \in Processed :
              (res[i].level = TACHE /\ LastBefore(i, BLOC) > LastBefore(i, PHASE))
                 => IsNa(res[i].phase)

\* the pass has met a Block row, then a Phase row, then a Task row
C20_Witness ==
    /\ pc \in {"loop", "returned"}
    /\ ~IsNa(current_bloc)
    /\ ~IsNa(current_phase)
    /\ LastBefore(idx, BLOC) > 0
    /\ LastBefore(idx, PHASE) > LastBefore(idx, BLOC)
    /\ \E i \in Processed :
          res[i].level = TACHE /\ ~IsNa(res[i].bloc) /\ ~IsNa(res[i].phase)

-----------------------------------------------------------------------------
(* Properties of the application *)

\* C22: through every sequence of load-demo, upload, failed-upload,
\* generate-Excel and generate-HTML events: when the page shows a table, the
\* alerts and the kpis of the session are those of that table; an Excel buffer
\* or an HTML report offered for download was generated from the table the
\* session holds; and after a failed load the session holds no table.
C22_SessionFollowsDataset ==
    /\ view.displayed =>
          /\ ~IsNa(session.df_planning)
          /\ session.alerts = Validate(Val(session.df_planning), sort_order, today).alerts
          /\ session.kpis = CalculateKpis(Val(session.df_planning))
    /\ view.offers_excel =>
          session.excel_buffer = Some(ExportToExcel(Val(session.df_planning)))
    /\ view.offers_html =>
          \E clock \in Clocks("html"), order \in SortOrders(Val(session.df_planning)) :
              session.html_report =
                 Some(ExportToHtml(Val(session.df_planning),
                                   Validate(Val(session.df_planning), order,
                                            clock.validate).alerts,
                                   CalculateKpis(Val(session.df_planning)),
                                   clock.title, clock.generation))
    /\ view.load_failed => IsNa(session.df_planning)

====
